---- MODULE Spec2Model ----
(***************************************************************************)
(* Task Intel Bot (src/main.py): the intent classifier with its per-user   *)
(* conversation context, the TTL cache in front of the task-source         *)
(* collections, and the two-phase command gateway (immediate               *)
(* acknowledgment, background processing, one post to the callback).       *)
(*                                                                         *)
(* Text is modelled as a sequence of one-character strings, so that        *)
(* Python's `in` (substring), lower(), strip() and len() are computed on   *)
(* the characters.  Confidence values are scaled by 100.  Time is in       *)
(* seconds.                                                                *)
(***************************************************************************)
EXTENDS Integers, Sequences, FiniteSets, TLC

\* ------------------------------------------------------------------ bounds
\* Largest clock value explored when the classifier is called directly.
MaxNow == 7201
\* Largest clock value explored by the gateway.
MaxTime == 60

\* ------------------------------------------------------- program constants
\* cleanup_old_contexts: "older than 1 hour".
CONTEXT_TTL == 3600
\* cachetools.TTLCache(maxsize=100, ttl=60).
CACHE_TTL == 60
\* len(query_lower) < 20: "short queries likely follow-ups".
SHORT_QUERY_LEN == 20

\* Python's None (an absent key, an absent user, an absent entry).
None == "None"
\* A text key the dict does not carry.
NoText == <<>>

\* ------------------------------------------------------------------- text
UpperAlpha == <<"A","B","C","D","E","F","G","H","I","J","K","L","M","N","O","P","Q","R","S","T","U","V","W","X","Y","Z">>
LowerAlpha == <<"a","b","c","d","e","f","g","h","i","j","k","l","m","n","o","p","q","r","s","t","u","v","w","x","y","z">>
Whitespace == {" ", "\t", "\n"}

MinOf(S) == CHOOSE x \in S : \A y \in S : x <= y
MaxOf(S) == CHOOSE x \in S : \A y \in S : x >= y

\* sub in s
Contains(s, sub) ==
    \E i \in 1..(Len(s) - Len(sub) + 1) : SubSeq(s, i, i + Len(sub) - 1) = sub

\* any(word in s for word in words)
AnyIn(words, s) == \E w \in words : Contains(s, w)

lower_char(c) ==
    IF \E i \in 1..Len(UpperAlpha) : UpperAlpha[i] = c
    THEN LowerAlpha[CHOOSE i \in 1..Len(UpperAlpha) : UpperAlpha[i] = c]
    ELSE c

\* str.lower()
lower(s) == [i \in 1..Len(s) |-> lower_char(s[i])]

\* str.strip()
strip(s) ==
    LET keep == {i \in 1..Len(s) : s[i] \notin Whitespace}
    IN  IF keep = {} THEN <<>> ELSE SubSeq(s, MinOf(keep), MaxOf(keep))

\* The first index of seq whose element passes Test, 0 when there is none:
\* a Python for loop that returns at its first match.
FirstIndex(seq, Test(_)) ==
    LET hits == {i \in 1..Len(seq) : Test(seq[i])}
    IN  IF hits = {} THEN 0 ELSE MinOf(hits)

\* ------------------------------------------------------------ vocabularies
\* TEAM_MEMBERS, in insertion order.
TEAM_MEMBERS == <<
    [key |-> <<"o","m","a","r">>,     name |-> <<"O","m","a","r">>],
    [key |-> <<"d","e","r","r","i","c","k">>,  name |-> <<"D","e","r","r","i","c","k">>],
    [key |-> <<"b","h","a","v","y","a">>,   name |-> <<"B","h","a","v","y","a">>],
    [key |-> <<"n","i","s","h","a","n","t","h">>, name |-> <<"N","i","s","h","a","n","t","h">>],
    [key |-> <<"c","h","e","t","h","a","n">>,  name |-> <<"C","h","e","t","h","a","n">>],
    [key |-> <<"d","e","e","m","a">>,    name |-> <<"D","e","e","m","a">>],
    [key |-> <<"b","r","a","z","i","l">>,   name |-> <<"B","r","a","z","i","l">>] >>

\* follow_up_commands, in insertion order.
follow_up_commands == <<
    [cmd |-> <<"p","i","p","e","l","i","n","e">>,    intent |-> "person_pipeline"],
    [cmd |-> <<"i","m","p","a","c","t">>,      intent |-> "person_impact"],
    [cmd |-> <<"a","l","l"," ","t","a","s","k","s">>,   intent |-> "person_all_tasks"],
    [cmd |-> <<"a","l","l">>,         intent |-> "person_all_tasks"],
    [cmd |-> <<"b","l","o","c","k","e","r","s">>,    intent |-> "person_blockers"],
    [cmd |-> <<"b","l","o","c","k","e","r">>,     intent |-> "person_blockers"],
    [cmd |-> <<"u","p","c","o","m","i","n","g">>,    intent |-> "person_pipeline"],
    [cmd |-> <<"w","h","a","t","'","s"," ","n","e","x","t">>, intent |-> "person_pipeline"],
    [cmd |-> <<"n","e","x","t">>,        intent |-> "person_pipeline"],
    [cmd |-> <<"t","a","s","k","s">>,       intent |-> "person_all_tasks"],
    [cmd |-> <<"s","h","o","w"," ","t","a","s","k","s">>,  intent |-> "person_all_tasks"],
    [cmd |-> <<"l","i","s","t"," ","t","a","s","k","s">>,  intent |-> "person_all_tasks"] >>

greeting_words == {<<"h","i">>, <<"h","e","l","l","o">>, <<"h","e","y">>, <<"h","o","w","d","y">>, <<"h","i","y","a">>, <<"y","o"," ">>}
thanks_words == {<<"t","h","a","n","k","s">>, <<"t","h","a","n","k"," ","y","o","u">>, <<"a","p","p","r","e","c","i","a","t","e">>, <<"t","h","x">>}
next_steps_words ==
    {<<"n","e","x","t"," ","s","t","e","p","s">>, <<"w","h","a","t"," ","n","e","x","t">>, <<"w","h","a","t"," ","s","h","o","u","l","d">>, <<"r","e","c","o","m","m","e","n","d">>, <<"s","u","g","g","e","s","t">>, <<"a","d","v","i","c","e">>}
this_week_words ==
    {<<"d","u","e"," ","t","h","i","s"," ","w","e","e","k">>, <<"t","h","i","s"," ","w","e","e","k">>, <<"w","e","e","k","l","y"," ","t","a","s","k","s">>, <<"w","e","e","k"," ","p","l","a","n">>, <<"c","u","r","r","e","n","t"," ","w","e","e","k">>,
     <<"u","p","c","o","m","i","n","g"," ","w","e","e","k">>}
next_week_words == {<<"d","u","e"," ","n","e","x","t"," ","w","e","e","k">>, <<"n","e","x","t"," ","w","e","e","k">>, <<"f","o","l","l","o","w","i","n","g"," ","w","e","e","k">>, <<"u","p","c","o","m","i","n","g"," ","w","e","e","k">>}
late_words ==
    {<<"l","a","t","e">>, <<"o","v","e","r","d","u","e">>, <<"p","a","s","t"," ","d","u","e">>, <<"m","i","s","s","e","d"," ","d","e","a","d","l","i","n","e">>, <<"d","e","a","d","l","i","n","e","s"," ","p","a","s","s","e","d">>,
     <<"b","e","h","i","n","d"," ","s","c","h","e","d","u","l","e">>}
person_week_words == {<<"w","e","e","k">>, <<"f","i","n","i","s","h">>, <<"c","o","m","p","l","e","t","e">>, <<"d","u","e">>, <<"d","e","a","d","l","i","n","e">>}
dept_week_words == {<<"w","e","e","k">>, <<"f","i","n","i","s","h">>, <<"c","o","m","p","l","e","t","e">>, <<"d","u","e">>}

\* dept_patterns, in insertion order.
dept_patterns == <<
    [dept |-> "Tech",
     patterns |-> {<<"t","e","c","h">>, <<"e","n","g","i","n","e","e","r","i","n","g">>, <<"d","e","v">>, <<"d","e","v","e","l","o","p","e","r","s">>, <<"t","e","c","h","n","i","c","a","l">>}],
    [dept |-> "Commercial",
     patterns |-> {<<"c","o","m","m","e","r","c","i","a","l">>, <<"s","a","l","e","s">>, <<"b","u","s","i","n","e","s","s">>, <<"r","e","v","e","n","u","e">>, <<"c","l","i","e","n","t","s">>}],
    [dept |-> "Operations",
     patterns |-> {<<"o","p","e","r","a","t","i","o","n","s">>, <<"o","p","s">>, <<"o","p","e","r","a","t","i","o","n","a","l">>, <<"p","r","o","c","e","s","s">>}],
    [dept |-> "Finance",
     patterns |-> {<<"f","i","n","a","n","c","e">>, <<"f","i","n","a","n","c","i","a","l">>, <<"m","o","n","e","y">>, <<"b","u","d","g","e","t">>, <<"r","e","v","e","n","u","e">>}] >>

company_words ==
    {<<"b","r","i","e","f">>, <<"o","v","e","r","v","i","e","w">>, <<"c","o","m","p","a","n","y">>, <<"s","t","a","t","u","s">>, <<"u","p","d","a","t","e">>, <<"h","o","w"," ","a","r","e"," ","w","e">>,
     <<"h","o","w"," ","w","e"," ","d","o","i","n","g">>}
blocker_words ==
    {<<"b","l","o","c","k">>, <<"s","t","u","c","k">>, <<"i","s","s","u","e">>, <<"p","r","o","b","l","e","m">>, <<"b","l","o","c","k","e","r">>, <<"i","m","p","e","d","i","m","e","n","t">>, <<"o","b","s","t","a","c","l","e">>}
priority_words ==
    {<<"p","r","i","o","r","i","t","y">>, <<"i","m","p","o","r","t","a","n","t">>, <<"c","r","i","t","i","c","a","l">>, <<"u","r","g","e","n","t">>, <<"h","i","g","h"," ","p","r","i","o","r","i","t","y">>, <<"p","0">>, <<"p","1">>}
help_words == {<<"h","e","l","p">>, <<"w","h","a","t"," ","c","a","n"," ","y","o","u"," ","d","o">>, <<"h","o","w"," ","t","o"," ","u","s","e">>, <<"c","o","m","m","a","n","d","s">>, <<"o","p","t","i","o","n","s">>}

\* ------------------------------------------------------- intent classifier
\* The dict understand_query returns; a key the code leaves out holds None
\* (department) or NoText (person).
Analysis(intent, person, department, tone, confidence) ==
    [intent |-> intent, person |-> person, department |-> department,
     tone |-> tone, confidence |-> confidence]

\* (variant) nothing is ever purged
cleanup_old_contexts_never(ctx, t) == ctx

\* cleanup_old_contexts(): the entries that survive the purge at time t.
cleanup_old_contexts(ctx, t) ==
    LET expired_users == {u \in DOMAIN ctx : t - ctx[u].timestamp > CONTEXT_TTL}
    IN  [u \in (DOMAIN ctx) \ expired_users |-> ctx[u]]

\* (variant) only the exact-match loop
follow_up_match_exact_only(query_lower) ==
    LET IsExact(c) == c.cmd = query_lower
        e == FirstIndex(follow_up_commands, IsExact)
    IN  IF e # 0 THEN [intent |-> follow_up_commands[e].intent, confidence |-> 95]
        ELSE [intent |-> None, confidence |-> 0]

\* The two follow-up loops of understand_query, run when the caller has a
\* context entry: the exact matches first, then the partial matches of a short
\* query.  The intent is None when neither loop returns.
follow_up_match(query_lower) ==
    LET IsExact(c) == c.cmd = query_lower
        IsPartial(c) == Contains(query_lower, c.cmd) /\ Len(query_lower) < SHORT_QUERY_LEN
        e == FirstIndex(follow_up_commands, IsExact)
        p == FirstIndex(follow_up_commands, IsPartial)
    IN  IF e # 0 THEN [intent |-> follow_up_commands[e].intent, confidence |-> 95]
        ELSE IF p # 0 THEN [intent |-> follow_up_commands[p].intent, confidence |-> 90]
        ELSE [intent |-> None, confidence |-> 0]

\* The team-member loop: the index in TEAM_MEMBERS of the first member whose
\* key or lower-cased name is in the query, 0 when there is none.
person_match(query_lower) ==
    LET Named(m) == \/ Contains(query_lower, m.key)
                    \/ Contains(query_lower, lower(m.name))
                    \/ AnyIn({m.key, lower(m.name)}, query_lower)
    IN  FirstIndex(TEAM_MEMBERS, Named)

\* The department loop: the index in dept_patterns of the first department
\* one of whose patterns is in the query, 0 when there is none.
department_match(query_lower) ==
    LET Matches(d) == AnyIn(d.patterns, query_lower)
    IN  FirstIndex(dept_patterns, Matches)

\* The rules of understand_query below the follow-up block, first match wins.
classify_rules(query_lower) ==
    LET m == person_match(query_lower)
        d == department_match(query_lower)
    IN  IF AnyIn(greeting_words, query_lower)
        THEN Analysis("greeting", NoText, None, "warm", 100)
        ELSE IF AnyIn(thanks_words, query_lower)
        THEN Analysis("thanks", NoText, None, "appreciative", 100)
        ELSE IF AnyIn(next_steps_words, query_lower)
        THEN Analysis("next_steps", NoText, None, "helpful", 90)
        ELSE IF AnyIn(this_week_words, query_lower)
        THEN Analysis("this_week", NoText, None, "proactive", 90)
        ELSE IF AnyIn(next_week_words, query_lower)
        THEN Analysis("next_week", NoText, None, "forward_looking", 90)
        ELSE IF AnyIn(late_words, query_lower)
        THEN Analysis("late_tasks", NoText, None, "urgent", 90)
        ELSE IF m # 0
        THEN IF AnyIn(person_week_words, query_lower)
             THEN Analysis("person_weekly", TEAM_MEMBERS[m].name, None, "supportive", 80)
             ELSE Analysis("person_update", TEAM_MEMBERS[m].name, None, "supportive", 80)
        ELSE IF d # 0
        THEN IF AnyIn(dept_week_words, query_lower)
             THEN Analysis("department_weekly", NoText, dept_patterns[d].dept,
                           "informative", 80)
             ELSE Analysis("department_update", NoText, dept_patterns[d].dept,
                           "informative", 80)
        ELSE IF AnyIn(company_words, query_lower)
        THEN Analysis("company_update", NoText, None, "confident", 80)
        ELSE IF AnyIn(blocker_words, query_lower)
        THEN Analysis("blockers_update", NoText, None, "concerned", 80)
        ELSE IF AnyIn(priority_words, query_lower)
        THEN Analysis("priorities_update", NoText, None, "focused", 80)
        ELSE IF AnyIn(help_words, query_lower)
        THEN Analysis("help", NoText, None, "friendly", 100)
        ELSE Analysis("company_update", NoText, None, "friendly", 50)

\* The intents of the person rule, the only rule that writes the context.
PersonIntents == {"person_weekly", "person_update"}

\* ----------------------------------------------------------------- inputs
Users == {"U1", "U2"}

FollowUpPhrases == {follow_up_commands[i].cmd : i \in 1..Len(follow_up_commands)}

\* The queries the first user sends.
ClassifierQueries ==
    FollowUpPhrases \cup
    {<<>>, <<" "," "," ">>, <<"B","l","o","c","k","e","r","s">>, <<" "," ","i","m","p","a","c","t"," "," ">>,
     <<"s","h","o","w"," ","b","l","o","c","k","e","r","s">>, <<"o","m","a","r"," ","b","l","o","c","k","e","r","s">>, <<"d","e","r","r","i","c","k"," ","p","i","p","e","l","i","n","e">>, <<"a","l","l"," ","b","l","o","c","k","e","r","s">>,
     <<"h","i"," ","a","l","l">>, <<"t","h","a","n","k","s",","," ","n","e","x","t">>, <<"n","e","x","t"," ","w","e","e","k">>, <<"l","a","t","e"," ","t","a","s","k","s">>, <<"t","e","c","h"," ","t","a","s","k","s">>,
     <<"u","r","g","e","n","t"," ","t","a","s","k","s">>, <<"h","e","l","p"," ","a","l","l">>, <<"l","i","s","t"," ","t","a","s","k","s"," ","f","o","r"," ","o","m","a","r">>, <<"l","i","s","t"," ","t","a","s","k","s"," ","f","o","r"," ","d","e","e","m","a">>,
     <<"s","h","o","w"," ","m","e"," ","a","l","l"," ","t","h","e"," ","b","l","o","c","k","e","r","s">>, <<"w","h","a","t","'","s"," ","n","e","x","t"," ","f","o","r"," ","d","e","e","m","a">>,
     <<"o","m","a","r">>, <<"W","h","a","t"," ","i","s"," ","O","m","a","r"," ","w","o","r","k","i","n","g"," ","o","n","?">>, <<"w","h","a","t"," ","i","s"," ","d","e","r","r","i","c","k"," ","w","o","r","k","i","n","g"," ","o","n","?">>,
     <<"W","h","a","t"," ","s","h","o","u","l","d"," ","O","m","a","r"," ","f","i","n","i","s","h"," ","t","h","i","s"," ","w","e","e","k","?">>, <<"h","i"," ","o","m","a","r">>, <<"t","h","a","n","k","s"," ","o","m","a","r">>,
     <<"o","m","a","r"," ","o","v","e","r","d","u","e">>, <<"o","m","a","r"," ","a","n","d"," ","d","e","r","r","i","c","k">>, <<"d","e","r","r","i","c","k"," ","a","n","d"," ","o","m","a","r">>, <<"D","e","e","m","a"," ","d","u","e"," ","f","r","i","d","a","y">>,
     <<"o","m","a","r"," ","n","e","x","t"," ","w","e","e","k">>, <<"O","m","a","r","'","s"," ","t","e","c","h"," ","t","a","s","k","s">>, <<"W","h","a","t"," ","s","h","o","u","l","d"," ","D","e","e","m","a"," ","f","i","n","i","s","h","?">>,
     <<"h","e","l","l","o">>, <<"t","e","c","h"," ","s","t","a","t","u","s">>, <<"W","h","a","t","'","s"," ","d","u","e"," ","t","h","i","s"," ","w","e","e","k","?">>, <<"w","h","a","t"," ","i","s"," ","s","t","u","c","k","?">>, <<"h","e","l","p">>,
     <<"e","n","g","i","n","e","e","r","i","n","g"," ","u","p","d","a","t","e">>, <<"r","a","n","d","o","m"," ","w","o","r","d","s">>}

\* The queries a second user, and a caller without user_id, send.
OtherQueries == {<<"w","h","a","t"," ","i","s"," ","d","e","r","r","i","c","k"," ","w","o","r","k","i","n","g"," ","o","n","?">>, <<"b","l","o","c","k","e","r","s">>, <<"t","e","c","h"," ","s","t","a","t","u","s">>}

\* The example queries of the greeting and help texts of generate_response,
\* each with the intent, person and department it is listed under; [person]
\* stands for every member of TEAM_MEMBERS.
Advertised(query, intent, person, department) ==
    [query |-> query, intent |-> intent, person |-> person, department |-> department]

AdvertisedExamples ==
    { Advertised(<<"W","h","a","t","'","s"," ","d","u","e"," ","t","h","i","s"," ","w","e","e","k","?">>, "this_week", NoText, None),
      Advertised(<<"W","h","a","t","'","s"," ","d","u","e"," ","n","e","x","t"," ","w","e","e","k","?">>, "next_week", NoText, None),
      Advertised(<<"W","h","a","t"," ","t","a","s","k","s"," ","a","r","e"," ","l","a","t","e","?">>, "late_tasks", NoText, None),
      Advertised(<<"S","h","o","w"," ","m","e"," ","o","v","e","r","d","u","e"," ","t","a","s","k","s">>, "late_tasks", NoText, None),
      Advertised(<<"H","i","g","h"," ","p","r","i","o","r","i","t","y"," ","i","t","e","m","s">>, "priorities_update", NoText, None),
      Advertised(<<"W","h","a","t","'","s"," ","u","r","g","e","n","t","?">>, "priorities_update", NoText, None),
      Advertised(<<"C","u","r","r","e","n","t"," ","b","l","o","c","k","e","r","s">>, "blockers_update", NoText, None),
      Advertised(<<"W","h","a","t","'","s"," ","s","t","u","c","k","?">>, "blockers_update", NoText, None),
      Advertised(<<"N","e","x","t"," ","s","t","e","p","s">>, "next_steps", NoText, None),
      Advertised(<<"T","e","c","h"," ","s","t","a","t","u","s">>, "department_update", NoText, "Tech"),
      Advertised(<<"E","n","g","i","n","e","e","r","i","n","g"," ","u","p","d","a","t","e">>, "department_update", NoText, "Tech"),
      Advertised(<<"C","o","m","m","e","r","c","i","a","l"," ","t","e","a","m"," ","u","p","d","a","t","e">>, "department_update", NoText, "Commercial"),
      Advertised(<<"O","p","e","r","a","t","i","o","n","s"," ","o","v","e","r","v","i","e","w">>, "department_update", NoText, "Operations"),
      Advertised(<<"F","i","n","a","n","c","e"," ","d","e","p","a","r","t","m","e","n","t">>, "department_update", NoText, "Finance") }
    \cup
    { Advertised(<<"W","h","a","t"," ","i","s"," ">> \o TEAM_MEMBERS[i].name \o <<" ","w","o","r","k","i","n","g"," ","o","n","?">>,
                 "person_update", TEAM_MEMBERS[i].name, None) :
        i \in 1..Len(TEAM_MEMBERS) }
    \cup
    { Advertised(<<"W","h","a","t"," ","s","h","o","u","l","d"," ">> \o TEAM_MEMBERS[i].name \o <<" ","f","i","n","i","s","h"," ","t","h","i","s"," ","w","e","e","k","?">>,
                 "person_weekly", TEAM_MEMBERS[i].name, None) :
        i \in 1..Len(TEAM_MEMBERS) }

AdvertisedQueries == {e.query : e \in AdvertisedExamples}

\* Queries that match the vocabularies of two or more rules.
MixedQueries ==
    {<<"h","e","l","p">>, <<"h","e","l","p"," ","d","e","r","r","i","c","k">>, <<"h","e","l","p"," ","w","i","t","h"," ","t","e","c","h">>, <<"h","e","l","p"," ","w","i","t","h"," ","b","l","o","c","k","e","r","s">>,
     <<"h","e","l","p",","," ","w","h","a","t"," ","i","s"," ","l","a","t","e","?">>, <<"t","h","a","n","k","s"," ","f","o","r"," ","t","h","e"," ","h","e","l","p">>, <<"d","e","r","r","i","c","k"," ","s","t","a","t","u","s">>,
     <<"s","a","l","e","s"," ","p","r","i","o","r","i","t","y">>, <<"s","t","a","t","u","s"," ","o","f"," ","b","l","o","c","k","e","r","s">>, <<"s","u","g","g","e","s","t"," ","s","o","m","e","t","h","i","n","g"," ","f","o","r"," ","d","e","r","r","i","c","k">>,
     <<"u","r","g","e","n","t"," ","p","r","o","b","l","e","m">>, <<"b","u","d","g","e","t">>, <<"p","1">>}

\* The second user names no member but Derrick; a caller without user_id
\* sends every example.
QueriesOf(user_id) ==
    IF user_id = "U1" THEN ClassifierQueries
    ELSE IF user_id = None THEN OtherQueries \cup AdvertisedQueries \cup MixedQueries
    ELSE OtherQueries \cup MixedQueries
         \cup {e.query : e \in {x \in AdvertisedExamples : x.person \in {NoText, <<"D","e","r","r","i","c","k">>}}}

\* The queries the gateway's commands carry: the form's text field, stripped.
GatewayQueries == {<<"W","h","a","t"," ","i","s"," ","O","m","a","r"," ","w","o","r","k","i","n","g"," ","o","n","?">>, <<"b","l","o","c","k","e","r","s">>}

AllQueries ==
    ClassifierQueries \cup OtherQueries \cup GatewayQueries \cup AdvertisedQueries
    \cup MixedQueries

\* query.lower().strip(), follow_up_match and classify_rules of the queries
\* above, evaluated once per query.
LoweredTable == [q \in AllQueries |-> strip(lower(q))]
Lowered(query) == IF query \in AllQueries THEN LoweredTable[query] ELSE strip(lower(query))
FollowUpTable == [q \in {LoweredTable[x] : x \in AllQueries} |-> follow_up_match(q)]
FollowUpOf(query_lower) ==
    IF query_lower \in DOMAIN FollowUpTable
    THEN FollowUpTable[query_lower] ELSE follow_up_match(query_lower)
RulesTable == [q \in {LoweredTable[x] : x \in AllQueries} |-> classify_rules(q)]
RulesOf(query_lower) ==
    IF query_lower \in DOMAIN RulesTable
    THEN RulesTable[query_lower] ELSE classify_rules(query_lower)

\* (variant) an entry the caller already has is kept: setdefault
store_context_keep_first(ctx, user_id, person_name, t) ==
    [u \in (DOMAIN ctx) \cup {user_id} |->
        IF u \in DOMAIN ctx THEN ctx[u] ELSE [person |-> person_name, timestamp |-> t]]

\* LAST_QUERY_CONTEXT[user_id] = {'person': person_name, 'timestamp': time.time()}
store_context(ctx, user_id, person_name, t) ==
    [u \in (DOMAIN ctx) \cup {user_id} |->
        IF u = user_id THEN [person |-> person_name, timestamp |-> t] ELSE ctx[u]]

\* understand_query with a follow-up that renews the caller's entry.
understand_query_renewing(query, user_id, ctx, t) ==
    LET live == cleanup_old_contexts(ctx, t)
        query_lower == Lowered(query)
        f == FollowUpOf(query_lower)
        r == RulesOf(query_lower)
    IN  IF query = <<>>
        THEN [analysis |-> Analysis("company_update", NoText, None, "friendly", 100),
              context |-> live]
        ELSE IF user_id # None /\ user_id \in DOMAIN live /\ f.intent # None
        THEN [analysis |-> Analysis(f.intent, live[user_id].person, None, "helpful",
                                    f.confidence),
              context |-> store_context(live, user_id, live[user_id].person, t)]
        ELSE IF r.intent \in PersonIntents /\ user_id # None
        THEN [analysis |-> r, context |-> store_context(live, user_id, r.person, t)]
        ELSE [analysis |-> r, context |-> live]

\* understand_query(query, user_id) called at time t with LAST_QUERY_CONTEXT =
\* ctx: the analysis it returns and the LAST_QUERY_CONTEXT it leaves.
understand_query(query, user_id, ctx, t) ==
    LET live == cleanup_old_contexts(ctx, t)
        query_lower == Lowered(query)
        f == FollowUpOf(query_lower)
        r == RulesOf(query_lower)
    IN  IF query = <<>>
        THEN [analysis |-> Analysis("company_update", NoText, None, "friendly", 100),
              context |-> live]
        ELSE IF user_id # None /\ user_id \in DOMAIN live /\ f.intent # None
        THEN [analysis |-> Analysis(f.intent, live[user_id].person, None, "helpful",
                                    f.confidence),
              context |-> live]
        ELSE IF r.intent \in PersonIntents /\ user_id # None
        THEN [analysis |-> r, context |-> store_context(live, user_id, r.person, t)]
        ELSE [analysis |-> r, context |-> live]

\* ------------------------------------------------------------ task source
\* DATABASES, in insertion order: two departments have a collection
\* identifier, two have none ('').
DATABASES == <<
    [dept |-> "Operations", db_id |-> "ops-db"],
    [dept |-> "Commercial", db_id |-> ""],
    [dept |-> "Tech",       db_id |-> "tech-db"],
    [dept |-> "Finance",    db_id |-> ""] >>

\* The indices the loop of get_all_tasks does not skip: `if not db_id: continue`.
Configured == {i \in 1..Len(DATABASES) : DATABASES[i].db_id # ""}

\* The next index after i the loop queries, 0 when the loop is over.
NextDatabase(i) ==
    LET later == {j \in Configured : j > i}
    IN  IF later = {} THEN 0 ELSE MinOf(later)

\* ------------------------------------------------------------------ pages
\* USER_ID_TO_NAME
USER_ID_TO_NAME == <<
    [id |-> <<"c","0","c","c","c","5","4","4","-","c","4","c","3","-","4","a","3","2","-","9","d","3","b","-","2","3","a","5","0","0","3","8","3","b","0","b">>, name |-> <<"B","r","a","z","i","l">>],
    [id |-> <<"0","8","0","c","4","2","c","6","-","f","b","b","2","-","4","7","d","6","-","9","7","7","4","-","1","d","0","8","6","c","7","c","3","2","1","0">>, name |-> <<"N","i","s","h","a","n","t","h">>],
    [id |-> <<"f","f","3","9","0","9","f","8","-","9","f","a","8","-","4","0","1","3","-","9","d","1","2","-","c","1","e","8","6","f","8","e","b","f","f","e">>, name |-> <<"C","h","e","t","h","a","n">>],
    [id |-> <<"e","c","6","4","1","0","c","f","-","b","2","c","b","-","4","e","a","8","-","8","5","3","9","-","f","b","9","7","3","e","0","0","a","0","2","8">>, name |-> <<"D","e","r","r","i","c","k">>],
    [id |-> <<"f","9","7","7","6","e","b","c","-","9","f","9","c","-","4","b","c","1","-","8","9","d","e","-","9","0","3","1","1","4","a","4","1","0","7","a">>, name |-> <<"D","e","e","m","a">>],
    [id |-> <<"2","4","d","8","7","1","d","8","-","8","a","f","e","-","4","9","8","b","-","a","4","3","4","-","e","2","6","0","9","b","b","1","7","8","9","d">>, name |-> <<"O","m","a","r">>],
    [id |-> <<"b","e","a","d","e","a","3","2","-","b","d","b","c","-","4","a","4","9","-","b","e","4","5","-","5","0","9","6","8","8","6","c","4","9","3","a">>, name |-> <<"B","h","a","v","y","a">>] >>

\* Days are counted from a Monday (day 0), so date.weekday() is day % 7; the
\* process starts on a Thursday.
weekday(day) == day % 7
Today(t) == 10 + (t \div 86400)

\* A property of a page as the remote source sends it: left out ("absent"),
\* sent as null ("null"), or sent with a value.
Absent == [kind |-> "absent", value |-> <<>>, day |-> 0]
Null == [kind |-> "null", value |-> <<>>, day |-> 0]
Select(name) == [kind |-> "value", value |-> name, day |-> 0]
Date(day) == [kind |-> "value", value |-> <<>>, day |-> day]

\* A page: the plain text of its title ("" when the list is empty) and of
\* its rich texts (<<>> when the list is empty), its people, its selects and
\* its date.
Page(name, people, due, status, priority, blocker, next_step, impact) ==
    [name |-> name, people |-> people, due |-> due, status |-> status,
     priority |-> priority, blocker |-> blocker, next_step |-> next_step,
     impact |-> impact]

Omar == [id |-> <<"2","4","d","8","7","1","d","8","-","8","a","f","e","-","4","9","8","b","-","a","4","3","4","-","e","2","6","0","9","b","b","1","7","8","9","d">>, name |-> <<>>]
Derrick == [id |-> <<"e","c","6","4","1","0","c","f","-","b","2","c","b","-","4","e","a","8","-","8","5","3","9","-","f","b","9","7","3","e","0","0","a","0","2","8">>, name |-> <<"D","e","r","r","i","c","k"," ","M">>]
Guest == [id |-> <<"0","0","0","0","-","g","u","e","s","t","-","7","7">>, name |-> <<"O","m","a","r","i","o","n">>]
Bot == [id |-> <<"0","0","0","0","-","b","o","t","-","4","2","4","2">>, name |-> <<>>]

\* Pages of the collections.
ShipPallets ==
    Page("Ship pallets", <<Omar>>, Date(9), Select(<<"I","n"," ","p","r","o","g","r","e","s","s">>), Select(<<"H","i","g","h">>),
         Select(<<"M","a","j","o","r">>), <<"B","o","o","k"," ","c","a","r","r","i","e","r">>, <<"R","e","v","e","n","u","e">>)
Nameless == Page("", <<>>, Absent, Absent, Absent, Absent, <<>>, <<>>)
CountStock ==
    Page("Count stock", <<Omar>>, Absent, Select(<<"N","o","t"," ","s","t","a","r","t","e","d">>), Absent,
         Select(<<"N","o","n","e">>), <<>>, <<>>)
FixLogin ==
    Page("Fix login", <<Derrick>>, Date(9), Select(<<"D","o","n","e">>), Select(<<"L","o","w">>),
         Select(<<"M","i","n","o","r">>), <<>>, <<>>)
PlanLaunch ==
    Page("Plan launch", <<Guest, Bot>>, Date(12), Absent, Absent, Select(<<"M","i","n","o","r">>),
         <<"D","r","a","f","t"," ","p","l","a","n">>, <<>>)
SignContract ==
    Page("Sign contract", <<Omar>>, Null, Select(<<"N","o","t"," ","s","t","a","r","t","e","d">>), Null, Null, <<>>, <<>>)

\* The responses of the remote source to the queries of a collection, page
\* after page: its results, and whether more pages follow (has_more, with a
\* next_cursor).  get_all_tasks sends one query per collection.
RemoteResponses(dept) ==
    IF dept = "Operations"
    THEN << [results |-> <<ShipPallets, Nameless>>, has_more |-> TRUE],
            [results |-> <<CountStock>>, has_more |-> FALSE] >>
    ELSE IF dept = "Tech"
    THEN << [results |-> <<FixLogin>>, has_more |-> FALSE] >>
    ELSE << [results |-> <<>>, has_more |-> FALSE] >>

\* result['results'] of the query get_all_tasks sends, when it succeeds.
RemotePage(dept) == RemoteResponses(dept)[1].results

\* ------------------------------------------------------------- normalizer
NOT_SET == <<"N","o","t"," ","s","e","t">>
NO_DATE == -1
completed_statuses == {<<"d","o","n","e">>, <<"c","o","m","p","l","e","t","e","d">>, <<"f","i","n","i","s","h","e","d">>}

\* The task dict of parse_task; NoTask stands for the None it returns.
Task(name, owners, status, due_date, next_step, blocker, impact, priority, department, is_late, days_late, is_completed) ==
    [name |-> name, owners |-> owners, status |-> status, due_date |-> due_date,
     next_step |-> next_step, blocker |-> blocker, impact |-> impact,
     priority |-> priority, department |-> department, is_late |-> is_late,
     days_late |-> days_late, is_completed |-> is_completed]

NoTask == Task("", <<>>, <<>>, NO_DATE, <<>>, <<>>, <<>>, <<>>, None, FALSE, 0, FALSE)

\* get_property(props, field_name, 'select'): select.get('name', 'Not set')
get_property(field) == IF field.kind = "value" THEN field.value ELSE NOT_SET

\* The last n characters of s: s[-n:]
Suffix(s, n) == SubSeq(s, MaxOf({1, Len(s) - n + 1}), Len(s))

\* The owner name parse_task appends for a person, <<>> when it appends none.
owner_name(person) ==
    LET Is(e) == e.id = person.id
        k == FirstIndex(USER_ID_TO_NAME, Is)
    IN  IF person.id # <<>> /\ k # 0 THEN USER_ID_TO_NAME[k].name
        ELSE IF person.name # <<>> THEN person.name
        ELSE IF person.id # <<>> THEN <<"u","s","e","r","_">> \o Suffix(person.id, 6)
        ELSE <<>>

\* is_late as parse_task computes it: the due date is before today.
is_late_of(due_date, status, today) == due_date # NO_DATE /\ due_date < today

\* parse_task(page, department) on day today.  NoTask for a page without a
\* task name, and for a page one of whose selects or whose date is null:
\* .get on None raises, and the except branch returns None.
parse_task(page, department, today) ==
    LET Appended(n) == n # <<>>
        owners == SelectSeq([i \in 1..Len(page.people) |-> owner_name(page.people[i])],
                            Appended)
        due_date == IF page.due.kind = "value" THEN page.due.day ELSE NO_DATE
        status == get_property(page.status)
        is_late == is_late_of(due_date, status, today)
    IN  IF page.name = "" \/ page.name = "No name" THEN NoTask
        ELSE IF "null" \in {page.due.kind, page.status.kind, page.blocker.kind,
                            page.priority.kind}
        THEN NoTask
        ELSE Task(page.name, owners, status, due_date, page.next_step,
                  get_property(page.blocker), page.impact, get_property(page.priority),
                  department, is_late, IF is_late THEN today - due_date ELSE 0,
                  lower(status) \in completed_statuses)

\* for page in result.get('results', []): task = parse_task(page, dept);
\* if task: tasks.append(task)
ParsedTasks(results, dept, today) ==
    LET parsed == [i \in 1..Len(results) |-> parse_task(results[i], dept, today)]
        Kept(t) == t # NoTask
    IN  SelectSeq(parsed, Kept)

\* The tasks parsed from the result of a collection's query on the day the
\* process starts, evaluated once per department.
ParsedTable ==
    [dept \in {DATABASES[i].dept : i \in 1..Len(DATABASES)} |->
        ParsedTasks(RemotePage(dept), dept, Today(0))]
TasksFrom(dept, today) ==
    IF today = Today(0) THEN ParsedTable[dept]
    ELSE ParsedTasks(RemotePage(dept), dept, today)

\* What a collection query comes to.
Outcomes == {"ok", "timeout", "error"}

\* ------------------------------------------------------------------ cache
\* cache = cachetools.TTLCache(maxsize=100, ttl=60), holding at most the key
\* 'all_tasks'.  asked and faults remember the refill that stored the entry:
\* the collections it queried and how many of them faulted.
NoCache == [present |-> FALSE, tasks |-> <<>>, expires |-> 0, asked |-> 0, faults |-> 0]

\* (variant) an entry never expires
cache_contains_forever(c, t) == c.present

\* cache_key in cache, evaluated at time t
cache_contains(c, t) == c.present /\ t < c.expires

\* cache[cache_key] = tasks, at time t
cache_setitem(tasks, t, asked, faults) ==
    [present |-> TRUE, tasks |-> tasks, expires |-> t + CACHE_TTL,
     asked |-> asked, faults |-> faults]

\* --------------------------------------------------------------- requests
\* The webhook requests: the form's text, whether it carries a response_url,
\* the caller, the signature header pair and the age of its timestamp in
\* seconds, and whether the form can be read at all.
Request(text, response_url, signature, age, form_ok) ==
    [text |-> text, response_url |-> response_url, user_id |-> "U1",
     signature |-> signature, age |-> age, form_ok |-> form_ok]

Requests ==
    { Request(<<" ","W","h","a","t"," ","i","s"," ","O","m","a","r"," ","w","o","r","k","i","n","g"," ","o","n","?"," ">>, TRUE, "valid", 0, TRUE),
      Request(<<"b","l","o","c","k","e","r","s">>, TRUE,  "valid",    0,   TRUE),
      Request(<<"b","l","o","c","k","e","r","s">>, FALSE, "valid",    0,   TRUE),
      Request(<<"b","l","o","c","k","e","r","s">>, TRUE,  "mismatch", 0,   TRUE),
      Request(<<"b","l","o","c","k","e","r","s">>, TRUE,  "missing",  0,   TRUE),
      Request(<<"b","l","o","c","k","e","r","s">>, TRUE,  "valid",    301, TRUE),
      Request(<<"b","l","o","c","k","e","r","s">>, TRUE,  "valid",    0,   FALSE) }

\* The check of the signature header pair: the signature matches and the
\* timestamp is at most 5 minutes old.
Authentic(request) == request.signature = "valid" /\ request.age <= 5 * 60

\* ------------------------------------------------------------------ state
\* The commands, named in the order their requests come in.
Cmds == {"c1", "c2"}
ArrivesBefore(c) == {d \in Cmds : d = "c1" /\ c = "c2"}

VARIABLES
    now,                 \* the clock: time.time(), and the cache's timer
    notion,              \* whether the Notion client was initialized
    LAST_QUERY_CONTEXT,  \* user_id -> [person, timestamp]
    cache,               \* the TTLCache
    cmd,                 \* per command: its request, its state, what it did
    lastCall,            \* the understand_query call of the latest step, if it was one
    snapshot,            \* a task list handed to generate_response
    report,              \* what generate_response returned for it
    lastPersonQuery      \* per user, the latest call that reached the person rule

vars ==
    <<now, notion, LAST_QUERY_CONTEXT, cache, cmd, lastCall, snapshot, report,
      lastPersonQuery>>

\* The caller had no entry.
NoEntry == [person |-> NoText, timestamp |-> -1]
NoAnalysis == Analysis(None, NoText, None, None, 0)
NoCall ==
    [query |-> <<>>, user_id |-> None, at |-> -1, before |-> NoEntry,
     analysis |-> NoAnalysis]
NoPayload == [kind |-> None, intent |-> None]
NoneIssued == [i \in 1..Len(DATABASES) |-> 0]

\* No report was made.
NoReport == [kind |-> None, sections |-> <<>>]

\* A command no request has come in for.
IdleCmd ==
    [phase |-> "Idle", trace |-> <<>>,
     query |-> <<>>, user_id |-> None, response_url |-> FALSE,
     authentic |-> TRUE, form_ok |-> TRUE,
     ack |-> None, scheduled |-> FALSE,
     pc |-> "none", analysis |-> NoAnalysis,
     source |-> None, lookup_at |-> -1, seen |-> NoCache,
     stored |-> NoCache, stored_at |-> -1,
     awaiting |-> 0, issued |-> NoneIssued, fetched |-> <<>>, tasks |-> <<>>,
     payload |-> NoPayload, posts |-> <<>>,
     read_context |-> FALSE, read_cache |-> FALSE]

Init ==
    /\ now = 0
    /\ notion \in BOOLEAN
    /\ LAST_QUERY_CONTEXT = <<>>
    /\ cache = NoCache
    /\ cmd = [c \in Cmds |-> IdleCmd]
    /\ lastCall = NoCall
    /\ snapshot = <<>>
    /\ report = NoReport
    /\ lastPersonQuery = [u \in Users |-> NoEntry]

\* Time passes.
Tick(steps, limit) ==
    /\ \E d \in steps : now + d <= limit /\ now' = now + d
    /\ lastCall' = NoCall
    /\ UNCHANGED <<notion, LAST_QUERY_CONTEXT, cache, cmd, snapshot, report, lastPersonQuery>>

\* ------------------------------------------------------------- classifier
\* The record of an understand_query call at time t: when it returned through
\* the person rule for a caller with a user_id, it is that caller's latest
\* person query; a query more than the TTL before the call is forgotten.
log_person_query(log, user_id, analysis, t) ==
    [u \in Users |->
        IF u = user_id /\ analysis.intent \in PersonIntents
        THEN [person |-> analysis.person, timestamp |-> t]
        ELSE IF log[u] # NoEntry /\ t - log[u].timestamp > CONTEXT_TTL
             THEN NoEntry
             ELSE log[u]]

\* One call understand_query(query, user_id).
CallUnderstandQuery ==
    \E user_id \in Users \cup {None} : \E query \in QueriesOf(user_id) :
        LET out == understand_query(query, user_id, LAST_QUERY_CONTEXT, now)
        IN  /\ LAST_QUERY_CONTEXT' = out.context
            /\ lastCall' = [query |-> query, user_id |-> user_id, at |-> now,
                            before |-> IF user_id \in DOMAIN LAST_QUERY_CONTEXT
                                       THEN LAST_QUERY_CONTEXT[user_id] ELSE NoEntry,
                            analysis |-> out.analysis]
            /\ lastPersonQuery' = log_person_query(lastPersonQuery, user_id,
                                                    out.analysis, now)
            /\ UNCHANGED <<now, notion, cache, cmd, snapshot, report>>

ClassifierTick == Tick({CONTEXT_TTL, CONTEXT_TTL + 1}, MaxNow)

NextClassifier == CallUnderstandQuery \/ ClassifierTick

SpecClassifier == Init /\ [][NextClassifier]_vars


\* ---------------------------------------------------------------- reports
\* A report is the text generate_response returns, kept as its sections: per
\* section the number of tasks its filter selected, the items it renders for them in
\* the order of the text, the slice bound of its loop (0: no slice) and the
\* N of its "... and N more" line (-1: no such line).  An item holds the task
\* and, per field, the text rendered for it (<<>>: nothing).
NothingShown ==
    [due |-> FALSE, status |-> <<>>, priority |-> <<>>, blocker |-> <<>>,
     next_step |-> <<>>, impact |-> <<>>]
Item(task, shown) == [task |-> task, shown |-> shown]
Section(title, matching, items, cap, more) ==
    [title |-> title, matching |-> Len(matching), items |-> items, cap |-> cap,
     more |-> more]
Report(kind, sections) == [kind |-> kind, sections |-> sections]

\* seq[:n]
Take(seq, n) == SubSeq(seq, 1, MinOf({n, Len(seq)}))

\* [render(t) for t in seq]
Items(seq, Shown(_)) == [i \in 1..Len(seq) |-> Item(seq[i], Shown(seq[i]))]

\* any(person.lower() in owner.lower() for owner in t['owners'])
owned_by(t, person) ==
    \E i \in 1..Len(t.owners) : Contains(lower(t.owners[i]), lower(person))
person_tasks_of(tasks, person) ==
    LET Owned(t) == owned_by(t, person)
    IN  SelectSeq(tasks, Owned)

\* t['next_step'] and t['next_step'] not in ['', 'Not specified']
has_next_step(t) == t.next_step # <<>> /\ t.next_step \notin {<<>>, <<"N","o","t"," ","s","p","e","c","i","f","i","e","d">>}
\* t.get('impact') and t['impact'] not in ['', 'Not specified']
has_impact(t) == t.impact # <<>> /\ t.impact \notin {<<>>, <<"N","o","t"," ","s","p","e","c","i","f","i","e","d">>}
\* t['blocker'] not in ['None', 'Not set']
is_blocked(t) == t.blocker \notin {<<"N","o","n","e">>, <<"N","o","t"," ","s","e","t">>}
is_high(t) == t.priority = <<"H","i","g","h">>
is_in_progress(t) == t.status = <<"I","n"," ","p","r","o","g","r","e","s","s">>
is_not_started(t) == t.status = <<"N","o","t"," ","s","t","a","r","t","e","d">>
is_completed(t) == t.is_completed
is_overdue(t) == t.is_late /\ ~t.is_completed

\* The lines the generators share.
ShowDueIfSet(t, shown) == [shown EXCEPT !.due = (t.due_date # NO_DATE)]
ShowHigh(t, shown) ==
    [shown EXCEPT !.priority = IF is_high(t) THEN <<"H","i","g","h"," ","P","r","i","o","r","i","t","y">> ELSE @]
ShowNext(t, shown) ==
    [shown EXCEPT !.next_step = IF has_next_step(t) THEN t.next_step ELSE @]
ShowBlocker(t, shown) ==
    [shown EXCEPT !.blocker = IF is_blocked(t) THEN t.blocker ELSE @]

\* The week of today and the week after it, Monday to Sunday.
week_start(week_type, today) ==
    IF week_type = "this_week" THEN today - weekday(today)
    ELSE today + (7 - weekday(today))
week_end(week_type, today) == week_start(week_type, today) + 6

\* The open tasks due within the week.
weekly_tasks_of(tasks, week_type, today) ==
    LET Due(t) == /\ t.due_date # NO_DATE
                  /\ ~t.is_completed
                  /\ week_start(week_type, today) <= t.due_date
                  /\ t.due_date <= week_end(week_type, today)
    IN  SelectSeq(tasks, Due)

\* The departments of a task list, in the order they first appear: the keys
\* of dept_groups.
RECURSIVE first_seen(_, _)
first_seen(tasks, seen) ==
    IF tasks = <<>> THEN <<>>
    ELSE IF Head(tasks).department \in seen THEN first_seen(Tail(tasks), seen)
    ELSE <<Head(tasks).department>>
         \o first_seen(Tail(tasks), seen \cup {Head(tasks).department})

\* The statuses of a task list, in the order they first appear: the keys of
\* status_counts.
RECURSIVE statuses_seen(_, _)
statuses_seen(tasks, seen) ==
    IF tasks = <<>> THEN <<>>
    ELSE IF Head(tasks).status \in seen THEN statuses_seen(Tail(tasks), seen)
    ELSE <<Head(tasks)>> \o statuses_seen(Tail(tasks), seen \cup {Head(tasks).status})

\* late_tasks.sort(key=lambda x: x['days_late'], reverse=True): a stable
\* sort, the tasks of equal days_late staying in their order.
RECURSIVE sort_days_late(_)
sort_days_late(tasks) ==
    IF tasks = <<>> THEN <<>>
    ELSE LET most == MaxOf({tasks[i].days_late : i \in 1..Len(tasks)})
             k == MinOf({i \in 1..Len(tasks) : tasks[i].days_late = most})
         IN  <<tasks[k]>>
             \o sort_days_late(SubSeq(tasks, 1, k - 1) \o SubSeq(tasks, k + 1, Len(tasks)))

generate_weekly_tasks(tasks, week_type, today) ==
    LET weekly_tasks == weekly_tasks_of(tasks, week_type, today)
        depts == first_seen(weekly_tasks, {})
        Shown(t) == ShowHigh(t, [NothingShown EXCEPT !.due = TRUE])
        Group(dept) ==
            LET InDept(t) == t.department = dept
                dept_tasks == SelectSeq(weekly_tasks, InDept)
            IN  Section(dept, dept_tasks, Items(Take(dept_tasks, 5), Shown), 5, -1)
    IN  Report(week_type, [i \in 1..Len(depts) |-> Group(depts[i])])

generate_late_tasks(tasks) ==
    LET late_tasks == sort_days_late(SelectSeq(tasks, is_overdue))
        Shown(t) ==
            ShowNext(t, ShowBlocker(t, ShowHigh(t, [NothingShown EXCEPT !.due = TRUE])))
    IN  IF late_tasks = <<>> THEN Report("late_tasks", <<>>)
        ELSE Report("late_tasks",
                    << Section("Overdue Tasks", late_tasks,
                               Items(Take(late_tasks, 10), Shown), 10,
                               IF Len(late_tasks) > 10 THEN Len(late_tasks) - 10 ELSE -1) >>)

generate_person_weekly_tasks(tasks, person, today) ==
    LET weekly_tasks == weekly_tasks_of(person_tasks_of(tasks, person), "this_week", today)
        Shown(t) ==
            ShowNext(t, [NothingShown EXCEPT !.due = TRUE, !.priority = t.priority])
    IN  IF weekly_tasks = <<>> THEN Report("person_weekly", <<>>)
        ELSE Report("person_weekly",
                    << Section("tasks due this week", weekly_tasks,
                               Items(weekly_tasks, Shown), 0, -1) >>)

generate_department_weekly_tasks(tasks, department, today) ==
    LET InDept(t) == t.department = department
        weekly_tasks == weekly_tasks_of(SelectSeq(tasks, InDept), "this_week", today)
        NotHigh(t) == ~is_high(t)
        high_priority == SelectSeq(weekly_tasks, is_high)
        other_priority == SelectSeq(weekly_tasks, NotHigh)
        Shown(t) == [NothingShown EXCEPT !.due = TRUE]
    IN  Report("department_weekly",
               (IF high_priority = <<>> THEN <<>>
                ELSE << Section("High Priority", high_priority,
                                Items(high_priority, Shown), 0, -1) >>)
               \o
               (IF other_priority = <<>> THEN <<>>
                ELSE << Section("Other Tasks", other_priority,
                                Items(Take(other_priority, 8), Shown), 8, -1) >>))

generate_person_pipeline(tasks, person) ==
    LET not_started == SelectSeq(person_tasks_of(tasks, person), is_not_started)
        Shown(t) == ShowNext(t, ShowHigh(t, ShowDueIfSet(t, NothingShown)))
    IN  IF not_started = <<>> THEN Report("person_pipeline", <<>>)
        ELSE Report("person_pipeline",
                    << Section("Pipeline", not_started, Items(not_started, Shown), 0, -1) >>)

generate_person_impact(tasks, person) ==
    LET tasks_with_impact == SelectSeq(person_tasks_of(tasks, person), has_impact)
        Shown(t) == [NothingShown EXCEPT !.impact = t.impact]
    IN  IF tasks_with_impact = <<>> THEN Report("person_impact", <<>>)
        ELSE Report("person_impact",
                    << Section("Business Impact", tasks_with_impact,
                               Items(tasks_with_impact, Shown), 0, -1) >>)

generate_person_all_tasks(tasks, person) ==
    LET person_tasks == person_tasks_of(tasks, person)
        in_progress == SelectSeq(person_tasks, is_in_progress)
        not_started == SelectSeq(person_tasks, is_not_started)
        completed == SelectSeq(person_tasks, is_completed)
        Shown(t) == ShowBlocker(t, ShowNext(t, ShowHigh(t, ShowDueIfSet(t, NothingShown))))
        Plain(t) == NothingShown
    IN  Report("person_all_tasks",
               (IF in_progress = <<>> THEN <<>>
                ELSE << Section("In Progress", in_progress,
                                Items(in_progress, Shown), 0, -1) >>)
               \o
               (IF not_started = <<>> THEN <<>>
                ELSE << Section("Not Started", not_started,
                                Items(not_started, Shown), 0, -1) >>)
               \o
               (IF completed = <<>> THEN <<>>
                ELSE << Section("Completed", completed,
                                Items(completed, Plain), 0, -1) >>))

generate_person_blockers(tasks, person) ==
    LET blocked_tasks == SelectSeq(person_tasks_of(tasks, person), is_blocked)
        Shown(t) ==
            ShowNext(t, ShowHigh(t, ShowDueIfSet(t, [NothingShown EXCEPT
                                                        !.blocker = t.blocker])))
    IN  IF blocked_tasks = <<>> THEN Report("person_blockers", <<>>)
        ELSE Report("person_blockers",
                    << Section("Blockers", blocked_tasks,
                               Items(blocked_tasks, Shown), 0, -1) >>)

\* The person_update branch of generate_response.
person_update_report(tasks, person) ==
    LET person_tasks == person_tasks_of(tasks, person)
        in_progress == SelectSeq(person_tasks, is_in_progress)
        not_started == SelectSeq(person_tasks, is_not_started)
        First(t) == t.is_late \/ is_high(t)
        Rest(t) == ~t.is_late /\ ~is_high(t)
        priority_tasks == SelectSeq(not_started, First)
        other_tasks == SelectSeq(not_started, Rest)
        remaining_slots == 3 - Len(priority_tasks)
        Working(t) == ShowNext(t, ShowDueIfSet(t, NothingShown))
        Ready(t) == ShowHigh(t, ShowDueIfSet(t, NothingShown))
        Other(t) == ShowDueIfSet(t, NothingShown)
    IN  Report("person_update",
               (IF in_progress = <<>> THEN <<>>
                ELSE << Section("Currently Working On", in_progress,
                                Items(in_progress, Working), 0, -1) >>)
               \o
               (IF in_progress = <<>> /\ not_started # <<>>
                THEN << Section("Ready to Start", not_started,
                                Items(Take(priority_tasks, 3), Ready)
                                \o (IF remaining_slots > 0
                                    THEN Items(Take(other_tasks, remaining_slots), Other)
                                    ELSE <<>>),
                                3,
                                IF Len(not_started) > 3 THEN Len(not_started) - 3 ELSE -1) >>
                ELSE <<>>))

\* The company_update branch.
company_update_report(tasks) ==
    LET IsMajor(t) == t.blocker = <<"M","a","j","o","r">>
        Important(t) == t.next_step # <<>> /\ is_high(t)
        major_blockers == SelectSeq(tasks, IsMajor)
        important_next_steps == SelectSeq(tasks, Important)
        Plain(t) == NothingShown
        NextStep(t) == [NothingShown EXCEPT !.next_step = t.next_step]
    IN  Report("company_update",
               (IF major_blockers = <<>> THEN <<>>
                ELSE << Section("Critical items needing attention", major_blockers,
                                Items(Take(major_blockers, 2), Plain), 2, -1) >>)
               \o
               (IF important_next_steps = <<>> THEN <<>>
                ELSE << Section("Key next steps this week", important_next_steps,
                                Items(Take(important_next_steps, 3), NextStep), 3, -1) >>))

\* The blockers_update branch.
blockers_update_report(tasks) ==
    LET blocked_tasks == SelectSeq(tasks, is_blocked)
        IsMajor(t) == t.blocker = <<"M","a","j","o","r">>
        IsMinor(t) == t.blocker = <<"M","i","n","o","r">>
        major_blockers == SelectSeq(blocked_tasks, IsMajor)
        minor_blockers == SelectSeq(blocked_tasks, IsMinor)
        ActionNeeded(t) == ShowNext(t, NothingShown)
        Plain(t) == NothingShown
    IN  IF blocked_tasks = <<>> THEN Report("blockers_update", <<>>)
        ELSE Report("blockers_update",
                    (IF major_blockers = <<>> THEN <<>>
                     ELSE << Section("Major Blockers", major_blockers,
                                     Items(Take(major_blockers, 3), ActionNeeded), 3, -1) >>)
                    \o
                    (IF minor_blockers = <<>> THEN <<>>
                     ELSE << Section("Minor Issues", minor_blockers,
                                     Items(Take(minor_blockers, 2), Plain), 2, -1) >>))

\* The next_steps branch.
next_steps_report(tasks) ==
    LET tasks_with_next_steps == SelectSeq(tasks, has_next_step)
        Shown(t) == ShowDueIfSet(t, [NothingShown EXCEPT !.next_step = t.next_step])
    IN  IF tasks_with_next_steps = <<>> THEN Report("next_steps", <<>>)
        ELSE Report("next_steps",
                    << Section("key next steps", tasks_with_next_steps,
                               Items(Take(tasks_with_next_steps, 6), Shown), 6, -1) >>)

\* The priorities_update branch.
priorities_update_report(tasks) ==
    LET high_priority == SelectSeq(tasks, is_high)
        Shown(t) == ShowBlocker(t, ShowNext(t, [NothingShown EXCEPT !.due = TRUE]))
    IN  IF high_priority = <<>> THEN Report("priorities_update", <<>>)
        ELSE Report("priorities_update",
                    << Section("High-Priority Focus Items", high_priority,
                               Items(Take(high_priority, 5), Shown), 5, -1) >>)

\* The else branch: the status counts of the department, one line per
\* status, and its next steps.
department_update_report(tasks, dept) ==
    LET InDept(t) == t.department = dept
        dept_tasks == IF dept # "All" THEN SelectSeq(tasks, InDept) ELSE tasks
        counted == statuses_seen(dept_tasks, {})
        dept_next_steps == SelectSeq(dept_tasks, has_next_step)
        Status(t) == [NothingShown EXCEPT !.status = t.status]
        NextStep(t) == [NothingShown EXCEPT !.next_step = t.next_step]
    IN  Report("department_update",
               (IF counted = <<>> THEN <<>>
                ELSE << Section("status counts", dept_tasks, Items(counted, Status), 0, -1) >>)
               \o
               (IF dept_next_steps = <<>> THEN <<>>
                ELSE << Section("Key next steps", dept_next_steps,
                                Items(Take(dept_next_steps, 3), NextStep), 3, -1) >>))

\* generate_response(tasks, analysis), called on day today.
generate_response(tasks, analysis, today) ==
    LET intent == analysis.intent
        person == analysis.person
        dept == IF analysis.department = None THEN "All" ELSE analysis.department
    IN  CASE intent \in {"greeting", "thanks", "help"} -> Report(intent, <<>>)
          [] intent = "person_pipeline" -> generate_person_pipeline(tasks, person)
          [] intent = "person_impact" -> generate_person_impact(tasks, person)
          [] intent = "person_all_tasks" -> generate_person_all_tasks(tasks, person)
          [] intent = "person_blockers" -> generate_person_blockers(tasks, person)
          [] intent = "this_week" -> generate_weekly_tasks(tasks, "this_week", today)
          [] intent = "next_week" -> generate_weekly_tasks(tasks, "next_week", today)
          [] intent = "late_tasks" -> generate_late_tasks(tasks)
          [] intent = "person_weekly" -> generate_person_weekly_tasks(tasks, person, today)
          [] intent = "department_weekly" ->
                generate_department_weekly_tasks(tasks, dept, today)
          [] intent = "next_steps" -> next_steps_report(tasks)
          [] intent = "person_update" -> person_update_report(tasks, person)
          [] intent = "company_update" -> company_update_report(tasks)
          [] intent = "blockers_update" -> blockers_update_report(tasks)
          [] intent = "priorities_update" -> priorities_update_report(tasks)
          [] OTHER -> department_update_report(tasks, dept)

\* ------------------------------------------------------- report generation
MaxTasks == 4

\* The pages a snapshot is parsed from, with the department of their
\* collection.
SamplePages ==
    { [page |-> ShipPallets, department |-> "Operations"],
      [page |-> Nameless, department |-> "Operations"],
      [page |-> CountStock, department |-> "Operations"],
      [page |-> FixLogin, department |-> "Tech"],
      [page |-> PlanLaunch, department |-> "Tech"],
      [page |-> SignContract, department |-> "Operations"] }

\* The analyses generate_response is called with: what understand_query
\* returns for these queries, and the follow-up intents for two members.
ReportQueries ==
    {<<"h","e","l","l","o">>, <<"t","h","a","n","k","s">>, <<"h","e","l","p">>, <<"n","e","x","t"," ","s","t","e","p","s">>, <<"t","h","i","s"," ","w","e","e","k">>, <<"n","e","x","t"," ","w","e","e","k">>,
     <<"l","a","t","e"," ","t","a","s","k","s">>, <<"o","m","a","r">>, <<"d","e","r","r","i","c","k">>, <<"o","m","a","r"," ","d","u","e">>, <<"d","e","r","r","i","c","k"," ","d","u","e">>, <<"t","e","c","h">>, <<"o","p","s">>,
     <<"t","e","c","h"," ","w","e","e","k">>, <<"o","p","s"," ","w","e","e","k">>, <<"s","t","a","t","u","s">>, <<"s","t","u","c","k">>, <<"u","r","g","e","n","t">>}
ReportAnalyses ==
    {classify_rules(strip(lower(q))) : q \in ReportQueries}
    \cup
    {Analysis(follow_up_commands[i].intent, person, None, "helpful", 95) :
        i \in 1..Len(follow_up_commands), person \in {<<"O","m","a","r">>, <<"D","e","r","r","i","c","k">>}}

\* A page of a query result is parsed and, when it is a task, appended.
ParsePage ==
    /\ report = NoReport
    /\ Len(snapshot) < MaxTasks
    /\ \E s \in SamplePages :
          snapshot' = snapshot \o ParsedTasks(<<s.page>>, s.department, Today(now))
    /\ UNCHANGED <<now, notion, LAST_QUERY_CONTEXT, cache, cmd, lastCall, report,
                 lastPersonQuery>>

\* generate_response(tasks, analysis); process_query_with_context calls it
\* for a task list that is not empty.
GenerateResponse ==
    /\ snapshot # <<>>
    /\ \E analysis \in ReportAnalyses :
          report' = generate_response(snapshot, analysis, Today(now))
    /\ UNCHANGED <<now, notion, LAST_QUERY_CONTEXT, cache, cmd, lastCall, snapshot,
                 lastPersonQuery>>

NextReports == ParsePage \/ GenerateResponse

SpecReports == Init /\ [][NextReports]_vars
\* ---------------------------------------------------------------- gateway
\* (variant) generate_response is called whatever the tasks are
response_for_always_report(tasks, analysis) ==
    [kind |-> "report", intent |-> analysis.intent]

\* The payload process_query_with_context posts for the tasks it got: the
\* "trouble connecting" text for no tasks, else generate_response's report.
response_for(tasks, analysis) ==
    IF tasks = <<>> THEN [kind |-> "no_data", intent |-> None]
    ELSE [kind |-> "report", intent |-> analysis.intent]

\* The payload of the except branch of process_query_with_context.
ErrorPayload == [kind |-> "error", intent |-> None]

\* (variant) the except branch logs the error and posts nothing
on_exception_silent(r) ==
    [r EXCEPT !.phase = "Failed", !.trace = Append(@, "Failed"), !.pc = "done"]

\* The except branch of process_query_with_context: the error payload is
\* posted to the response_url.
on_exception(r) ==
    [r EXCEPT !.phase = "Failed", !.trace = Append(@, "Failed"),
              !.pc = "post", !.payload = ErrorPayload]

\* (variant) the pipeline runs inside the handler, before it returns
acknowledge_after_processing(r) ==
    [r EXCEPT !.phase = "Processing", !.trace = Append(@, "Processing"),
              !.query = strip(@), !.ack = "gathering", !.scheduled = r.response_url]

\* What slack_command leaves when the form was read: the query stripped, the
\* background task added when there is a response_url, the acknowledgment
\* returned.
acknowledge(r) ==
    [r EXCEPT !.phase = "Acknowledged", !.trace = Append(@, "Acknowledged"),
              !.query = strip(@), !.ack = "gathering", !.scheduled = r.response_url]

\* (variant) a fault ends the loop
loop_next_break(i, outcome) == IF outcome = "ok" THEN NextDatabase(i) ELSE 0

\* The collection the loop of get_all_tasks queries after collection i has
\* settled: both except branches `continue`.
loop_next(i, outcome) == NextDatabase(i)

\* A request comes in and slack_command awaits its form.
Receive(c) ==
    /\ cmd[c].phase = "Idle"
    /\ \A d \in ArrivesBefore(c) : cmd[d].phase # "Idle"
    /\ \E request \in Requests :
          cmd' = [cmd EXCEPT ![c] =
                    [@ EXCEPT !.phase = "Received", !.trace = <<"Received">>,
                              !.query = request.text,
                              !.user_id = request.user_id,
                              !.response_url = request.response_url,
                              !.authentic = Authentic(request),
                              !.form_ok = request.form_ok]]
    /\ lastCall' = NoCall
    /\ UNCHANGED <<now, notion, LAST_QUERY_CONTEXT, cache, snapshot, report, lastPersonQuery>>

\* slack_command, from the form to the JSONResponse it returns: the
\* acknowledgment, and the background task when the form has a response_url;
\* the "trouble" acknowledgment when reading the form raises.
slack_command(c) ==
    /\ cmd[c].phase = "Received"
    /\ cmd' = [cmd EXCEPT ![c] =
                 IF @.form_ok
                 THEN acknowledge(@)
                 ELSE [@ EXCEPT !.phase = "Acknowledged",
                                !.trace = Append(@, "Acknowledged"),
                                !.ack = "trouble"]]
    /\ lastCall' = NoCall
    /\ UNCHANGED <<now, notion, LAST_QUERY_CONTEXT, cache, snapshot, report, lastPersonQuery>>

\* The times at which cache[cache_key] may read the timer, when
\* `cache_key in cache` read it at t: the two lookups read it separately.
LookupTimes(t) == {t} \cup {t + d : d \in {x \in {CACHE_TTL \div 2} : t + x <= MaxTime}}

\* The background task, from its start to its first await: understand_query,
\* then get_all_tasks up to the first collection query (or to its return, on
\* a cache hit, without a client, or with no collection configured), then the
\* payload.  A cache entry that expires between the two lookups of a hit
\* raises KeyError, which the except branch turns into the error payload.
process_query_with_context(c) ==
    /\ cmd[c].phase = "Acknowledged"
    /\ cmd[c].scheduled
    /\ LET r == cmd[c]
           out == understand_query(r.query, r.user_id, LAST_QUERY_CONTEXT, now)
           started == [r EXCEPT !.phase = "Processing", !.seen = cache,
                                !.trace = Append(@, "Processing"),
                                !.analysis = out.analysis,
                                !.read_context = TRUE,
                                !.read_cache = TRUE,
                                !.lookup_at = now]
           first == NextDatabase(0)
           empty == cache_setitem(<<>>, now, 0, 0)
       IN  /\ LAST_QUERY_CONTEXT' = out.context
           /\ lastPersonQuery' = log_person_query(lastPersonQuery, r.user_id,
                                                   out.analysis, now)
           /\ lastCall' = [query |-> r.query, user_id |-> r.user_id, at |-> now,
                           before |-> IF r.user_id \in DOMAIN LAST_QUERY_CONTEXT
                                      THEN LAST_QUERY_CONTEXT[r.user_id] ELSE NoEntry,
                           analysis |-> out.analysis]
           /\ IF cache_contains(cache, now)
              THEN \E t2 \in LookupTimes(now) :
                      /\ now' = t2
                      /\ cache' = cache
                      /\ cmd' = [cmd EXCEPT ![c] =
                                   IF cache_contains(cache, t2)
                                   THEN [started EXCEPT
                                            !.source = "hit", !.seen = cache,
                                            !.tasks = cache.tasks, !.pc = "post",
                                            !.payload = response_for(cache.tasks,
                                                                     out.analysis)]
                                   ELSE on_exception([started EXCEPT
                                                        !.source = "expired",
                                                        !.seen = cache])]
              ELSE /\ now' = now
                   /\ IF ~notion
                      THEN /\ cache' = cache
                           /\ cmd' = [cmd EXCEPT ![c] =
                                        [started EXCEPT
                                            !.source = "no_client", !.pc = "post",
                                            !.payload = response_for(<<>>, out.analysis)]]
                      ELSE IF first = 0
                      THEN /\ cache' = empty
                           /\ cmd' = [cmd EXCEPT ![c] =
                                        [started EXCEPT
                                            !.source = "refill", !.stored = empty,
                                            !.stored_at = now,
                                            !.pc = "post",
                                            !.payload = response_for(<<>>, out.analysis)]]
                      ELSE /\ cache' = cache
                           /\ cmd' = [cmd EXCEPT ![c] =
                                        [started EXCEPT
                                            !.source = "refill", !.pc = "fetch",
                                            !.awaiting = first,
                                            !.issued = [@ EXCEPT ![first] = @ + 1]]]
    /\ UNCHANGED <<notion, snapshot, report>>

\* get_all_tasks, from the settling of the collection query it awaits to its
\* next await: the pages are parsed and appended, or the fault is logged and
\* the loop continues; after the last collection the tasks are stored in the
\* cache and returned, and the payload is made.
query_settles(c) ==
    /\ cmd[c].pc = "fetch"
    /\ \E outcome \in Outcomes :
          LET r == cmd[c]
              dept == DATABASES[r.awaiting].dept
              tasks2 == IF outcome = "ok"
                        THEN r.tasks \o TasksFrom(dept, Today(now))
                        ELSE r.tasks
              fetched2 == Append(r.fetched, [dept |-> dept, ok |-> outcome = "ok"])
              faults == Cardinality({i \in 1..Len(fetched2) : ~fetched2[i].ok})
              next == loop_next(r.awaiting, outcome)
              entry == cache_setitem(tasks2, now, Len(fetched2), faults)
          IN  IF next # 0
              THEN /\ cache' = cache
                   /\ cmd' = [cmd EXCEPT ![c] =
                                [r EXCEPT !.tasks = tasks2, !.fetched = fetched2,
                                          !.awaiting = next,
                                          !.issued = [@ EXCEPT ![next] = @ + 1]]]
              ELSE /\ cache' = entry
                   /\ cmd' = [cmd EXCEPT ![c] =
                                [r EXCEPT !.tasks = tasks2, !.fetched = fetched2,
                                          !.awaiting = 0, !.stored = entry,
                                          !.stored_at = now,
                                          !.pc = "post",
                                          !.payload = response_for(tasks2, r.analysis)]]
    /\ lastCall' = NoCall
    /\ UNCHANGED <<now, notion, LAST_QUERY_CONTEXT, snapshot, report, lastPersonQuery>>

\* What the POST to the response_url comes to.
PostStatuses == {"200", "500", "exception"}

\* (variant) a failed POST raises into the except branch of
\* process_query_with_context, which posts the error payload
send_slack_response_raises(c) ==
    /\ cmd[c].pc = "post"
    /\ \E status \in PostStatuses :
          LET r == cmd[c]
              final == IF r.phase = "Failed" THEN "DeliveredError" ELSE "Delivered"
              posted == Append(r.posts, [kind |-> r.payload.kind, ok |-> status = "200"])
          IN  cmd' = [cmd EXCEPT ![c] =
                        IF status # "200" /\ r.phase # "Failed"
                        THEN on_exception([r EXCEPT !.posts = posted])
                        ELSE [IdleCmd EXCEPT
                                 !.phase = final, !.trace = Append(r.trace, final),
                                 !.response_url = r.response_url,
                                 !.authentic = r.authentic, !.form_ok = r.form_ok,
                                 !.ack = r.ack, !.scheduled = r.scheduled,
                                 !.pc = "done", !.posts = posted,
                                 !.read_context = r.read_context,
                                 !.read_cache = r.read_cache]]
    /\ lastCall' = NoCall
    /\ UNCHANGED <<now, notion, LAST_QUERY_CONTEXT, cache, snapshot, report, lastPersonQuery>>

\* send_slack_response: one POST of the payload; a status other than 200 and
\* an exception are logged.  The background task ends, and with it its locals.
send_slack_response(c) ==
    /\ cmd[c].pc = "post"
    /\ \E status \in PostStatuses :
          LET r == cmd[c]
              final == IF r.phase = "Failed" THEN "DeliveredError" ELSE "Delivered"
          IN  cmd' = [cmd EXCEPT ![c] =
                        [IdleCmd EXCEPT
                            !.phase = final, !.trace = Append(r.trace, final),
                            !.response_url = r.response_url,
                            !.authentic = r.authentic, !.form_ok = r.form_ok,
                            !.ack = r.ack, !.scheduled = r.scheduled,
                            !.pc = "done",
                            !.posts = Append(r.posts,
                                             [kind |-> r.payload.kind, ok |-> status = "200"]),
                            !.read_context = r.read_context,
                            !.read_cache = r.read_cache]]
    /\ lastCall' = NoCall
    /\ UNCHANGED <<now, notion, LAST_QUERY_CONTEXT, cache, snapshot, report, lastPersonQuery>>

GatewayTick == Tick({CACHE_TTL \div 2}, MaxTime)

Next ==
    \/ \E c \in Cmds : Receive(c)
    \/ \E c \in Cmds : slack_command(c)
    \/ \E c \in Cmds : process_query_with_context(c)
    \/ \E c \in Cmds : query_settles(c)
    \/ \E c \in Cmds : send_slack_response(c)
    \/ GatewayTick

Spec == Init /\ [][Next]_vars

\* The event loop runs every ready coroutine; a collection query settles
\* within its 25 s timeout and the POST within the HTTP client's timeout.
Fairness ==
    \A c \in Cmds :
        /\ WF_vars(slack_command(c))
        /\ WF_vars(process_query_with_context(c))
        /\ WF_vars(query_settles(c))
        /\ WF_vars(send_slack_response(c))

FairSpec == Init /\ [][Next]_vars /\ Fairness

\* ================================================================== claims
ConfiguredOnce == [i \in 1..Len(DATABASES) |-> IF i \in Configured THEN 1 ELSE 0]

\* The departments of the configured collections, in the order of the loop.
RECURSIVE ConfiguredFrom(_)
ConfiguredFrom(i) ==
    IF NextDatabase(i) = 0 THEN <<>>
    ELSE <<DATABASES[NextDatabase(i)].dept>> \o ConfiguredFrom(NextDatabase(i))

\* The normalized tasks of the collections of a fetch log that succeeded.
RECURSIVE TasksOfSucceeded(_)
TasksOfSucceeded(fetched) ==
    IF fetched = <<>> THEN <<>>
    ELSE (IF Head(fetched).ok
          THEN TasksFrom(Head(fetched).dept, Today(now))
          ELSE <<>>) \o TasksOfSucceeded(Tail(fetched))

\* get_all_tasks has returned to the command (its tasks are the returned list).
Returned(c) == cmd[c].pc = "post" /\ cmd[c].phase = "Processing"

C2_FaultedRefillNotCached ==
    \A c \in Cmds :
        (Returned(c) /\ cmd[c].source = "hit") =>
            ~(/\ cmd[c].seen.asked > 0
              /\ cmd[c].seen.faults = cmd[c].seen.asked
              /\ cmd[c].seen.tasks = <<>>)

\* C3: during a refill every configured collection is queried in turn,
\* whatever the collections before it came to, and the list returned is the
\* concatenation, in that order, of the normalized tasks of the collections
\* that succeeded, with nothing from one that faulted.
C3_FaultIsolation ==
    \A c \in Cmds :
        LET r == cmd[c]
            depts == [i \in 1..Len(r.fetched) |-> r.fetched[i].dept]
            all == ConfiguredFrom(0)
        IN  r.source = "refill" =>
              /\ Len(depts) <= Len(all)
              /\ depts = SubSeq(all, 1, Len(depts))
              /\ r.tasks = TasksOfSucceeded(r.fetched)
              /\ r.pc = "fetch" =>
                    /\ Len(depts) < Len(all)
                    /\ DATABASES[r.awaiting].dept = all[Len(depts) + 1]
              /\ Returned(c) => Len(depts) = Len(all)

\* C3: a refill has returned in which the first collection faulted and the
\* second one succeeded, with exactly the tasks of the second.
C3_Witness ==
    \E c \in Cmds :
        /\ Returned(c) /\ cmd[c].source = "refill"
        /\ cmd[c].fetched = << [dept |-> "Operations", ok |-> FALSE],
                               [dept |-> "Tech", ok |-> TRUE] >>
        /\ Len(cmd[c].tasks) = 1
        /\ cmd[c].tasks[1].name = "Fix login"
        /\ cmd[c].tasks[1].department = "Tech"

\* C4: no processing of a command (classification, cache lookup, collection
\* query, post) happens before its acknowledgment is returned, the
\* acknowledgment is the second thing that happens to it, and a received
\* command can be acknowledged in every state, whatever the cache holds.
C4_AckBeforeProcessing ==
    \A c \in Cmds :
        LET r == cmd[c]
        IN  /\ r.phase \in {"Idle", "Received"} =>
                 /\ ~r.read_context /\ ~r.read_cache
                 /\ r.issued = NoneIssued /\ r.posts = <<>> /\ r.pc = "none"
            /\ r.phase \notin {"Idle", "Received"} =>
                 /\ Len(r.trace) >= 2
                 /\ SubSeq(r.trace, 1, 2) = <<"Received", "Acknowledged">>
                 /\ r.ack # None
            /\ r.phase = "Received" => ENABLED slack_command(c)

\* C4: a command has been acknowledged, its background task not yet started,
\* while the cache held an expired entry.
C4_Witness ==
    \E c \in Cmds :
        /\ cmd[c].phase = "Acknowledged" /\ cmd[c].ack = "gathering"
        /\ cmd[c].scheduled /\ cmd[c].pc = "none"
        /\ cache.present /\ ~cache_contains(cache, now)

\* The two ways through the gateway's states.
DeliveredPath == <<"Received", "Acknowledged", "Processing", "Delivered">>
ErrorPath == <<"Received", "Acknowledged", "Processing", "Failed", "DeliveredError">>
IsPrefix(s, t) == Len(s) <= Len(t) /\ s = SubSeq(t, 1, Len(s))

\* The states of a command so far are a prefix of one of the two paths, its
\* state is the last of them, and it has posted once, what its terminal state
\* says, exactly when it is in a terminal state.
LifecycleOk(c) ==
    LET r == cmd[c]
    IN  /\ IsPrefix(r.trace, DeliveredPath) \/ IsPrefix(r.trace, ErrorPath)
        /\ r.phase = (IF r.trace = <<>> THEN "Idle" ELSE r.trace[Len(r.trace)])
        /\ r.phase = "Delivered" =>
              Len(r.posts) = 1 /\ r.posts[1].kind \in {"report", "no_data"}
        /\ r.phase = "DeliveredError" =>
              Len(r.posts) = 1 /\ r.posts[1].kind = "error"
        /\ r.phase \notin {"Delivered", "DeliveredError"} => r.posts = <<>>

\* C5: a command moves through Received, Acknowledged, Processing in that
\* order, and one acknowledged with a callback address eventually reaches one
\* terminal state, Delivered after a post of the report or DeliveredError
\* after a post of the error report; none stays in Processing.
C5_Lifecycle ==
    /\ [](\A c \in Cmds : LifecycleOk(c))
    /\ \A c \in Cmds :
          (cmd[c].phase = "Acknowledged" /\ cmd[c].scheduled)
              ~> (cmd[c].phase \in {"Delivered", "DeliveredError"})

\* C5: one command has ended Delivered and the other DeliveredError.
C5_Witness ==
    \E c, d \in Cmds :
        /\ cmd[c].phase = "Delivered" /\ cmd[c].posts[1].kind = "report"
        /\ cmd[d].phase = "DeliveredError"

\* C6: a command whose first delivery attempt failed has made more than one
\* attempt when its background task has ended.
C6_DeliveryRetried ==
    \A c \in Cmds :
        (cmd[c].pc = "done" /\ ~cmd[c].posts[1].ok) => Len(cmd[c].posts) > 1

\* C7: a command whose signature is missing or wrong, or whose timestamp is
\* older than 5 minutes, gets no background task, reads neither the context
\* nor the cache, and posts nothing.
C7_UnauthenticRejected ==
    \A c \in Cmds :
        ~cmd[c].authentic =>
            /\ ~cmd[c].scheduled
            /\ ~cmd[c].read_context /\ ~cmd[c].read_cache
            /\ cmd[c].posts = <<>>

\* ------------------------------------------------------ classifier claims
\* The caller of the latest call had an entry before it, and its age then.
HadEntry == lastCall.user_id # None /\ lastCall.before # NoEntry
EntryAge == lastCall.at - lastCall.before.timestamp
LastLower == Lowered(lastCall.query)

\* The follow-up phrases the latest query contains.
PhrasesIn(query_lower) ==
    {i \in 1..Len(follow_up_commands) : Contains(query_lower, follow_up_commands[i].cmd)}

\* The latest call was a follow-up phrase by a user whose entry had expired.
StaleFollowUp ==
    /\ HadEntry
    /\ EntryAge > CONTEXT_TTL
    /\ LastLower \in FollowUpPhrases

\* C8 as stated: after the context TTL every follow-up phrase classifies to
\* the fallback overview intent company_update, with no person.
C8_StaleFollowUpIsOverview ==
    StaleFollowUp =>
        /\ lastCall.analysis.intent = "company_update"
        /\ lastCall.analysis.person = NoText

\* C8 amended: after the context TTL a follow-up phrase classifies as it does
\* without any context, to blockers_update for 'blockers' and 'blocker' and to
\* the fallback company_update for the other ten, never with a person, and
\* the caller's expired entry is gone.
C8_StaleFollowUpIgnoresContext ==
    StaleFollowUp =>
        /\ lastCall.analysis.person = NoText
        /\ lastCall.analysis.intent =
              (IF LastLower \in {<<"b","l","o","c","k","e","r","s">>, <<"b","l","o","c","k","e","r">>}
               THEN "blockers_update" ELSE "company_update")
        /\ lastCall.analysis.confidence =
              (IF LastLower \in {<<"b","l","o","c","k","e","r","s">>, <<"b","l","o","c","k","e","r">>} THEN 80 ELSE 50)
        /\ lastCall.user_id \notin DOMAIN LAST_QUERY_CONTEXT

\* C8: a follow-up phrase sent one second after the entry's last live moment
\* has classified to company_update.
C8_Witness ==
    /\ StaleFollowUp
    /\ EntryAge = CONTEXT_TTL + 1
    /\ lastCall.analysis.intent = "company_update"

\* The latest call was a short query with a follow-up phrase in it, by a user
\* whose entry was live.
LiveFollowUp ==
    /\ HadEntry
    /\ EntryAge <= CONTEXT_TTL
    /\ PhrasesIn(LastLower) # {}
    /\ Len(LastLower) < SHORT_QUERY_LEN \/ LastLower \in FollowUpPhrases

\* C9: for a user with a live entry, a short query that contains a follow-up
\* phrase classifies to the follow-up intent of a phrase it contains (of the
\* phrase itself when the query is exactly one), bound to the remembered
\* person, with confidence at least 0.9, whatever later rule it also matches.
C9_FollowUpWins ==
    LiveFollowUp =>
        /\ lastCall.analysis.intent \in
              {follow_up_commands[i].intent : i \in PhrasesIn(LastLower)}
        /\ lastCall.analysis.person = lastCall.before.person
        /\ lastCall.analysis.confidence >= 90
        /\ \A i \in 1..Len(follow_up_commands) :
              follow_up_commands[i].cmd = LastLower =>
                 /\ lastCall.analysis.intent = follow_up_commands[i].intent
                 /\ lastCall.analysis.confidence = 95

\* C9: a follow-up was resolved to the remembered person for a query that
\* names another roster member.
C9_Witness ==
    /\ LiveFollowUp
    /\ person_match(LastLower) # 0
    /\ TEAM_MEMBERS[person_match(LastLower)].name # lastCall.before.person
    /\ lastCall.analysis.person = lastCall.before.person
    /\ lastCall.at - lastCall.before.timestamp = CONTEXT_TTL

\* The caller's entry after the latest call is the named member at call time.
EntryWritten ==
    /\ lastCall.user_id \in DOMAIN LAST_QUERY_CONTEXT
    /\ LAST_QUERY_CONTEXT[lastCall.user_id] =
          [person |-> TEAM_MEMBERS[person_match(LastLower)].name,
           timestamp |-> lastCall.at]

\* C10 as stated: after a call with a user_id and a query that names a roster
\* member, the caller's entry holds that member and the time of the call.
C10_NamedPersonStored ==
    (lastCall.user_id # None /\ person_match(LastLower) # 0) => EntryWritten

\* A rule above the person rule matches the query.
EarlierRuleMatches(query_lower) ==
    AnyIn(greeting_words \cup thanks_words \cup next_steps_words \cup this_week_words
          \cup next_week_words \cup late_words, query_lower)

\* C10 amended: after a call with a user_id and a query that names a roster
\* member and that no rule above the person rule matches (the follow-up rule
\* on a live entry, greeting, thanks, next steps, this week, next week, late),
\* the caller's entry holds the first member of the roster the query names
\* and the time of the call, and the call returns a person intent for that
\* member.
C10_PersonRuleStores ==
    (/\ lastCall.user_id # None
     /\ person_match(LastLower) # 0
     /\ ~EarlierRuleMatches(LastLower)
     /\ ~LiveFollowUp) =>
        /\ EntryWritten
        /\ lastCall.analysis.intent \in PersonIntents
        /\ lastCall.analysis.person = TEAM_MEMBERS[person_match(LastLower)].name

\* C10: the person rule has replaced a live entry for another member.
C10_Witness ==
    /\ HadEntry
    /\ EntryAge <= CONTEXT_TTL
    /\ lastCall.at > lastCall.before.timestamp
    /\ lastCall.analysis.intent \in PersonIntents
    /\ lastCall.analysis.person # lastCall.before.person
    /\ EntryWritten

\* ------------------------------------------------- classification precedence
\* The latest step was a call with a query, by a caller without a live entry.
NoLiveContext ==
    /\ lastCall.at >= 0
    /\ lastCall.query # <<>>
    /\ ~HadEntry \/ EntryAge > CONTEXT_TTL

\* The intents of each class of the stated precedence whose vocabulary the
\* query matches.
SocialIntents(q) ==
    {i \in {"greeting", "thanks", "help"} :
        \/ i = "greeting" /\ AnyIn(greeting_words, q)
        \/ i = "thanks" /\ AnyIn(thanks_words, q)
        \/ i = "help" /\ AnyIn(help_words, q)}
TimeframeIntents(q) ==
    {i \in {"this_week", "next_week", "late_tasks"} :
        \/ i = "this_week" /\ AnyIn(this_week_words, q)
        \/ i = "next_week" /\ AnyIn(next_week_words, q)
        \/ i = "late_tasks" /\ AnyIn(late_words, q)}
CategoryIntents(q) ==
    {i \in {"blockers_update", "priorities_update", "next_steps", "company_update"} :
        \/ i = "blockers_update" /\ AnyIn(blocker_words, q)
        \/ i = "priorities_update" /\ AnyIn(priority_words, q)
        \/ i = "next_steps" /\ AnyIn(next_steps_words, q)
        \/ i = "company_update" /\ AnyIn(company_words, q)}

\* C11 as stated: without a live context the classification follows the
\* precedence social (greeting, thanks, help), timeframe, person, department,
\* category, overview, first match wins; so a query with a help phrase and no
\* other social phrase classifies to help whatever else it contains.
C11_FixedPrecedence ==
    NoLiveContext =>
        LET q == LastLower
            a == lastCall.analysis
        IN  IF SocialIntents(q) # {} THEN a.intent \in SocialIntents(q)
            ELSE IF TimeframeIntents(q) # {} THEN a.intent \in TimeframeIntents(q)
            ELSE IF person_match(q) # 0
            THEN /\ a.intent \in PersonIntents
                 /\ a.person = TEAM_MEMBERS[person_match(q)].name
            ELSE IF department_match(q) # 0
            THEN /\ a.intent \in {"department_update", "department_weekly"}
                 /\ a.department = dept_patterns[department_match(q)].dept
            ELSE IF CategoryIntents(q) # {} THEN a.intent \in CategoryIntents(q)
            ELSE a.intent = "company_update" /\ a.confidence = 50

\* C12 as stated: every example query of the greeting and help texts
\* classifies, without a live context, to the intent (and person or
\* department) it is listed under.
C12_AdvertisedExamplesClassify ==
    NoLiveContext =>
        \A e \in AdvertisedExamples :
            e.query = lastCall.query =>
                /\ lastCall.analysis.intent = e.intent
                /\ lastCall.analysis.person = e.person
                /\ lastCall.analysis.department = e.department

\* -------------------------------------------------------------- the refill
\* C13 as stated: on a miss the queries of all configured collections are
\* started together, so while the refill waits for a query to settle, the
\* query of every configured collection has been started.
C13_QueriesStartedTogether ==
    \A c \in Cmds :
        cmd[c].pc = "fetch" => \A i \in Configured : cmd[c].issued[i] >= 1

\* Every record of a collection, over all the pages of the remote source.
RECURSIVE AllRecords(_)
AllRecords(responses) ==
    IF responses = <<>> THEN <<>>
    ELSE Head(responses).results \o AllRecords(Tail(responses))

\* The normalized tasks of all records of the collections of a fetch log
\* that succeeded.
RECURSIVE AllTasksOfSucceeded(_)
AllTasksOfSucceeded(fetched) ==
    IF fetched = <<>> THEN <<>>
    ELSE (IF Head(fetched).ok
          THEN ParsedTasks(AllRecords(RemoteResponses(Head(fetched).dept)),
                           Head(fetched).dept, Today(now))
          ELSE <<>>) \o AllTasksOfSucceeded(Tail(fetched))

\* C14 as stated: a collection fetch follows the continuation cursor, so the
\* snapshot of a refill holds the normalized tasks of every named record of
\* every collection that succeeded, over all its pages.
C14_AllPagesFetched ==
    \A c \in Cmds :
        (Returned(c) /\ cmd[c].source = "refill") =>
            cmd[c].tasks = AllTasksOfSucceeded(cmd[c].fetched)

\* C20 as stated: a get_all_tasks call that starts while the refill of
\* another call is in flight starts no fetch round of its own, so no two
\* commands are inside a refill at once and no collection is queried twice
\* while the first refill's snapshot is not yet stored.
C20_SingleRefillInFlight ==
    \A c \in Cmds : \A d \in Cmds \ {c} :
        cmd[c].pc = "fetch" =>
            /\ cmd[d].pc # "fetch"
            /\ \A i \in Configured : cmd[c].issued[i] + cmd[d].issued[i] <= 1

\* --------------------------------------------------------- no data to show
\* get_all_tasks has returned an empty list to the command because no task
\* source was reachable: there is no client, or every collection the refill
\* queried faulted, or the cache served the snapshot of such a refill.
EmptyByFault(c) ==
    LET r == cmd[c]
    IN  /\ Returned(c)
        /\ r.tasks = <<>>
        /\ \/ r.source = "no_client"
           \/ /\ r.source = "refill"
              /\ r.fetched # <<>>
              /\ \A i \in 1..Len(r.fetched) : ~r.fetched[i].ok
           \/ /\ r.source = "hit"
              /\ r.seen.asked > 0
              /\ r.seen.faults = r.seen.asked

\* C18: when the tasks of a command are empty because no task source was
\* reachable, the one payload posted to its response_url is the explicit
\* "trouble connecting to the task database" message, whatever the intent:
\* never a report made from zero tasks.
C18_NoDataMessage ==
    [][\A c \in Cmds :
          (EmptyByFault(c) /\ cmd'[c].pc = "done") =>
              /\ cmd[c].payload.kind = "no_data"
              /\ cmd'[c].posts = <<[kind |-> "no_data", ok |-> cmd'[c].posts[1].ok]>>]_vars

\* C18: a refill in which both configured collections faulted has made the
\* "trouble connecting" payload for a follow-up intent.
C18_Witness ==
    \E c \in Cmds :
        /\ EmptyByFault(c)
        /\ cmd[c].source = "refill"
        /\ Len(cmd[c].fetched) = Cardinality(Configured)
        /\ cmd[c].analysis.intent = "person_blockers"
        /\ cmd[c].payload.kind = "no_data"

\* ---------------------------------------------------------------- reports
\* C15 as stated: a task of the snapshot is late if and only if it has a due
\* date before today and is not completed.
C15_LateIffOverdueAndOpen ==
    \A i \in 1..Len(snapshot) :
        LET t == snapshot[i]
        IN  /\ t.is_completed <=> lower(t.status) \in completed_statuses
            /\ t.is_late <=>
                  (t.due_date # NO_DATE /\ t.due_date < Today(now) /\ ~t.is_completed)

\* The rank of a priority in the comparator: High 0, Medium 1, Low 2, unset 3.
priority_rank(t) ==
    IF t.priority = <<"H","i","g","h">> THEN 0
    ELSE IF t.priority = <<"M","e","d","i","u","m">> THEN 1
    ELSE IF t.priority = <<"L","o","w">> THEN 2 ELSE 3

\* a comes no later than b in the comparator: priority rank ascending, then
\* due date ascending with the undated tasks last.
NotAfter(a, b) ==
    \/ priority_rank(a) < priority_rank(b)
    \/ /\ priority_rank(a) = priority_rank(b)
       /\ \/ b.due_date = NO_DATE
          \/ a.due_date # NO_DATE /\ a.due_date <= b.due_date

\* The sections of the latest report that list tasks.
TaskSections ==
    {k \in 1..Len(report.sections) : report.sections[k].title # "status counts"}

\* The reports that list tasks: priorities, next steps, late tasks, weekly,
\* department, person and follow-up reports.
ListingKinds ==
    {"priorities_update", "next_steps", "late_tasks", "this_week", "next_week",
     "department_weekly", "department_update", "person_weekly", "person_update",
     "person_pipeline", "person_impact", "person_all_tasks", "person_blockers"}

\* C16 as stated: in every section of a report that lists tasks, the tasks
\* appear in the order of the comparator.
C16_ReportsInComparatorOrder ==
    report.kind \in ListingKinds =>
        \A k \in TaskSections :
            LET items == report.sections[k].items
            IN  \A i \in 1..Len(items) : \A j \in i..Len(items) :
                    NotAfter(items[i].task, items[j].task)

\* C17 as stated: a section renders at most its cap of items, and when its
\* filter selected more tasks than it renders, it ends with "... and N more"
\* where N is the number of tasks left out.
C17_CapsAndTrailers ==
    \A k \in TaskSections :
        LET s == report.sections[k]
        IN  /\ s.cap > 0 => Len(s.items) <= s.cap
            /\ s.matching > Len(s.items) => s.more = s.matching - Len(s.items)

\* C19 as stated: no report renders the sentinel 'Not set' or 'Not specified'
\* as the value of a task's status, priority, blocker, next step or impact.
C19_NoRawSentinel ==
    \A k \in 1..Len(report.sections) :
        \A i \in 1..Len(report.sections[k].items) :
            LET shown == report.sections[k].items[i].shown
            IN  {shown.status, shown.priority, shown.blocker, shown.next_step,
                 shown.impact} \cap {<<"N","o","t"," ","s","e","t">>, <<"N","o","t"," ","s","p","e","c","i","f","i","e","d">>} = {}

\* ------------------------------------------------------------------- posts
\* Nothing more happens to the command: its handler has returned and its
\* background task, if it got one, has ended.
Finished(c) ==
    /\ cmd[c].phase # "Idle"
    /\ ~ENABLED (\/ slack_command(c)
                 \/ process_query_with_context(c)
                 \/ query_settles(c)
                 \/ send_slack_response(c))

\* C21: a command (a request whose form the handler read) gets exactly one
\* post to its response_url when it carried one and none when it did not; a
\* request whose form could not be read gets none.  No command gets a second
\* post: the post is the last thing that happens to it, so a post that failed
\* (exception or status other than 200) is not followed by the error report,
\* and the command ends Delivered.
C21_ExactlyOnePost ==
    \A c \in Cmds :
        LET r == cmd[c]
        IN  /\ Len(r.posts) <= 1
            /\ r.posts # <<>> => r.form_ok /\ r.response_url /\ Finished(c)
            /\ Finished(c) =>
                  Len(r.posts) = (IF r.form_ok /\ r.response_url THEN 1 ELSE 0)
            /\ (r.posts # <<>> /\ r.posts[1].kind # "error") => r.phase = "Delivered"

\* C21: one command has ended after its only post, of a report, failed, and
\* the other, sent without a response_url, has ended without a post.
C21_Witness ==
    \E c \in Cmds : \E d \in Cmds \ {c} :
        /\ Finished(c)
        /\ cmd[c].posts = <<[kind |-> "report", ok |-> FALSE]>>
        /\ cmd[c].phase = "Delivered"
        /\ Finished(d)
        /\ cmd[d].form_ok /\ ~cmd[d].response_url
        /\ cmd[d].posts = <<>>

\* ----------------------------------------------------- conversation context
FollowUpIntents == {follow_up_commands[i].intent : i \in 1..Len(follow_up_commands)}

\* The entry of user u in ctx when it is no older than the TTL at time t, the
\* entry a call at time t can still use.
LiveEntry(ctx, u, t) ==
    IF u \in DOMAIN ctx /\ t - ctx[u].timestamp <= CONTEXT_TTL THEN ctx[u] ELSE NoEntry

\* The entry of user u in ctx as it is stored, expired or not.
StoredEntry(ctx, u) == IF u \in DOMAIN ctx THEN ctx[u] ELSE NoEntry

\* The person of a follow-up intent is that of the caller's own latest person
\* query, made at most the TTL before the call.
FollowUpPersonIsOwn ==
    lastCall.analysis.intent \in FollowUpIntents =>
        /\ lastCall.user_id \in Users
        /\ lastPersonQuery[lastCall.user_id] # NoEntry
        /\ lastCall.analysis.person = lastPersonQuery[lastCall.user_id].person
        /\ lastCall.at >= lastPersonQuery[lastCall.user_id].timestamp
        /\ lastCall.at - lastPersonQuery[lastCall.user_id].timestamp <= CONTEXT_TTL

\* A follow-up resolution leaves the caller's entry as it was.
FollowUpKeepsEntry ==
    lastCall'.analysis.intent \in FollowUpIntents =>
        /\ lastCall'.user_id \in DOMAIN LAST_QUERY_CONTEXT
        /\ StoredEntry(LAST_QUERY_CONTEXT', lastCall'.user_id)
              = StoredEntry(LAST_QUERY_CONTEXT, lastCall'.user_id)

\* A call without user_id returns what it returns with an empty context.
NoUserIdReadsNothing ==
    lastCall'.user_id = None =>
        lastCall'.analysis
          = understand_query(lastCall'.query, None, <<>>, lastCall'.at).analysis

\* C22 as stated: the person of a follow-up intent is that of the caller's own
\* latest person query, at most 1 hour old; a call by another user leaves a
\* user's entry as it is, a follow-up resolution leaves the caller's entry as
\* it is, and a call without user_id reads and writes no entry.
C22_OwnPersonNoEntryTouched ==
    /\ []FollowUpPersonIsOwn
    /\ [][lastCall'.at >= 0 =>
            /\ \A u \in Users \ {lastCall'.user_id} :
                  StoredEntry(LAST_QUERY_CONTEXT', u) = StoredEntry(LAST_QUERY_CONTEXT, u)
            /\ FollowUpKeepsEntry
            /\ NoUserIdReadsNothing
            /\ lastCall'.user_id = None => LAST_QUERY_CONTEXT' = LAST_QUERY_CONTEXT]_vars

\* C22: the person of a follow-up intent is that of the caller's own latest
\* person query, at most 1 hour old; a follow-up resolution leaves the
\* caller's entry as it is; a call by another user, and a call without
\* user_id, leave every entry that is at most 1 hour old as it is and change
\* no entry, but delete the entries older than that, as every call does; and
\* a call without user_id returns what it returns with an empty context.
C22_OwnPersonLiveEntriesKept ==
    /\ []FollowUpPersonIsOwn
    /\ [][lastCall'.at >= 0 =>
            /\ \A u \in Users \ {lastCall'.user_id} :
                  /\ LiveEntry(LAST_QUERY_CONTEXT', u, lastCall'.at)
                        = LiveEntry(LAST_QUERY_CONTEXT, u, lastCall'.at)
                  /\ StoredEntry(LAST_QUERY_CONTEXT', u)
                        \in {StoredEntry(LAST_QUERY_CONTEXT, u), NoEntry}
                  /\ StoredEntry(LAST_QUERY_CONTEXT', u) # StoredEntry(LAST_QUERY_CONTEXT, u)
                        => lastCall'.at - LAST_QUERY_CONTEXT[u].timestamp > CONTEXT_TTL
            /\ FollowUpKeepsEntry
            /\ NoUserIdReadsNothing]_vars

\* C22: a user got a follow-up intent for the person of their own latest
\* person query, exactly 1 hour after it, while another user's entry held
\* another person.
C22_Witness ==
    /\ lastCall.analysis.intent \in FollowUpIntents
    /\ lastCall.user_id = "U1"
    /\ lastCall.at - lastPersonQuery["U1"].timestamp = CONTEXT_TTL
    /\ lastCall.analysis.person = lastPersonQuery["U1"].person
    /\ "U2" \in DOMAIN LAST_QUERY_CONTEXT
    /\ LAST_QUERY_CONTEXT["U2"].person # lastCall.analysis.person
====
